---------------------------- MODULE Spec2Model ----------------------------
(***************************************************************************)
(* Voyage economics engine, pairwise assignment optimizer and full         *)
(* portfolio joint optimizer of the freight calculator                     *)
(* (src/src/freight_calculator.py, src/src/portfolio_optimizer.py).        *)
(*                                                                         *)
(* Units.  The code computes in binary floating point; the model computes  *)
(* in fixed point:                                                         *)
(*   time      ticks, 1 tick = 0.001 day (TicksPerDay ticks in a day)      *)
(*   distance  nautical miles                                              *)
(*   speed     tenths of a knot                                            *)
(*   fuel rate tenths of a tonne per day; fuel in hundredths of a tonne    *)
(*   money     whole US dollars                                            *)
(*   tolerance, commission, multipliers: percent or basis points           *)
(* round(x, 2) on a duration is rounding to the nearest 10 ticks; money    *)
(* values are whole dollars already, which round(x, 2) leaves unchanged.   *)
(***************************************************************************)
EXTENDS Integers, Sequences, FiniteSets, TLC

(***************************************************************************)
(* Arithmetic helpers                                                      *)
(***************************************************************************)
Abs(x) == IF x < 0 THEN -x ELSE x

Max2(a, b) == IF a >= b THEN a ELSE b

Min2(a, b) == IF a <= b THEN a ELSE b

TicksPerDay == 1000

\* round(x, 2) applied to a duration held in ticks (half rounds up)
Round2(t) == ((t + 5) \div 10) * 10

RECURSIVE SumSeq(_)
SumSeq(s) == IF s = <<>> THEN 0 ELSE Head(s) + SumSeq(Tail(s))

Range(s) == {s[i] : i \in DOMAIN s}

\* the names of s, in order, that are not in the set S
SeqMinus(s, S) == SelectSeq(s, LAMBDA x : x \notin S)

(***************************************************************************)
(* Strings: str.upper() and the substring test `needle in hay`, on the     *)
(* finite universe of names that occur in the model                        *)
(***************************************************************************)
Upper(s) ==
    CASE s = "Singapore"    -> "SINGAPORE"
      [] s = "Fujairah"     -> "FUJAIRAH"
      [] s = "Rotterdam"    -> "ROTTERDAM"
      [] s = "Gibraltar"    -> "GIBRALTAR"
      [] s = "Durban"       -> "DURBAN"
      [] s = "Qingdao"      -> "QINGDAO"
      [] s = "Shanghai"     -> "SHANGHAI"
      [] s = "Port Louis"   -> "PORT LOUIS"
      [] s = "Richards Bay" -> "RICHARDS BAY"
      [] OTHER              -> s

SubstringPairs ==
    { <<"KAMSAR", "KAMSAR ANCHORAGE">>, <<"KAMSAR", "PORT KAMSAR">>,
      <<"QINGDAO", "DAGANG (QINGDAO)">>, <<"HEDLAND", "PORT HEDLAND">>,
      <<"MADEIRA", "PONTA DA MADEIRA">>,
      <<"GWANGYANG", "GWANGYANG LNG TERMINAL">> }

\* Python: needle in hay
Contains(hay, needle) == needle = hay \/ <<needle, hay>> \in SubstringPairs

(***************************************************************************)
(* Port Distance Resolver                                                  *)
(***************************************************************************)
NotFound == -1

\* PortDistanceManager.port_aliases, in dictionary order (the entries whose
\* ports occur in the model)
port_aliases ==
    << <<"QINGDAO", <<"QINGDAO", "DAGANG (QINGDAO)">> >>,
       <<"KAMSAR", <<"KAMSAR ANCHORAGE", "PORT KAMSAR">> >>,
       <<"KAMSAR ANCHORAGE", <<"KAMSAR ANCHORAGE", "PORT KAMSAR">> >>,
       <<"SINGAPORE", <<"SINGAPORE">> >>,
       <<"PORT HEDLAND", <<"PORT HEDLAND">> >>,
       <<"ITAGUAI", <<"ITAGUAI">> >>,
       <<"GWANGYANG", <<"GWANGYANG LNG TERMINAL", "GWANGYANG">> >>,
       <<"FANGCHENG", <<"FANGCHENG">> >>,
       <<"MAP TA PHUT", <<"MAP TA PHUT">> >>,
       <<"ROTTERDAM", <<"ROTTERDAM">> >>,
       <<"PONTA DA MADEIRA", <<"PONTA DA MADEIRA", "SAO LUIS">> >>,
       <<"KRISHNAPATNAM", <<"KRISHNAPATNAM">> >>,
       <<"SHANGHAI", <<"SHANGHAI">> >>,
       <<"FUJAIRAH", <<"FUJAIRAH">> >>,
       <<"GIBRALTAR", <<"GIBRALTAR">> >>,
       <<"DURBAN", <<"DURBAN">> >>,
       <<"PORT LOUIS", <<"PORT LOUIS">> >>,
       <<"RICHARDS BAY", <<"RICHARDS BAY">> >> >>

AliasEntryMatches(entry, port_upper) ==
    \/ \E i \in DOMAIN entry[2] :
          Contains(port_upper, entry[2][i]) \/ Contains(entry[2][i], port_upper)
    \/ Contains(port_upper, entry[1])
    \/ Contains(entry[1], port_upper)

RECURSIVE NormalizeFrom(_, _)
NormalizeFrom(k, port_upper) ==
    IF k > Len(port_aliases) THEN <<port_upper>>
    ELSE IF AliasEntryMatches(port_aliases[k], port_upper)
         THEN port_aliases[k][2]
         ELSE NormalizeFrom(k + 1, port_upper)

normalize_port(port) == NormalizeFrom(1, Upper(port))

\* the reference distance table (Port_Distances.csv), keys upper-cased
distances ==
    ( <<"QINGDAO", "PORT HEDLAND">>          :> 3500 ) @@
    ( <<"PORT KAMSAR", "DAGANG (QINGDAO)">>  :> 11000 ) @@
    ( <<"ITAGUAI", "QINGDAO">>               :> 11300 ) @@
    ( <<"ROTTERDAM", "KAMSAR ANCHORAGE">>    :> 2900 ) @@
    ( <<"ROTTERDAM", "ITAGUAI">>             :> 5300 ) @@
    ( <<"QINGDAO", "SINGAPORE">>             :> 2500 ) @@
    ( <<"SINGAPORE", "PORT HEDLAND">>        :> 1700 ) @@
    ( <<"MAP TA PHUT", "SINGAPORE">>         :> 800 ) @@
    ( <<"SINGAPORE", "KAMSAR ANCHORAGE">>    :> 8600 ) @@
    ( <<"QINGDAO", "DURBAN">>                :> 7000 ) @@
    ( <<"DURBAN", "KAMSAR ANCHORAGE">>       :> 4100 ) @@
    ( <<"DURBAN", "ITAGUAI">>                :> 4200 ) @@
    ( <<"ROTTERDAM", "GIBRALTAR">>           :> 1300 ) @@
    ( <<"GIBRALTAR", "KAMSAR ANCHORAGE">>    :> 1700 ) @@
    ( <<"QINGDAO", "SHANGHAI">>              :> 400 ) @@
    ( <<"SHANGHAI", "PORT HEDLAND">>         :> 3300 ) @@
    ( <<"PORT HEDLAND", "GWANGYANG LNG TERMINAL">> :> 3600 )

\* PortDistanceManager.normalized_estimates: the curated estimates, both
\* directions
estimated_distances ==
    ( <<"MAP TA PHUT", "PORT HEDLAND">>      :> 2800 ) @@
    ( <<"MAP TA PHUT", "KAMSAR ANCHORAGE">>  :> 9500 ) @@
    ( <<"MAP TA PHUT", "ITAGUAI">>           :> 12500 ) @@
    ( <<"QINGDAO", "PONTA DA MADEIRA">>      :> 12300 ) @@
    ( <<"SINGAPORE", "FANGCHENG">>           :> 1300 ) @@
    ( <<"FUJAIRAH", "FANGCHENG">>            :> 5600 ) @@
    ( <<"ROTTERDAM", "FANGCHENG">>           :> 11300 ) @@
    ( <<"GIBRALTAR", "FANGCHENG">>           :> 11000 ) @@
    ( <<"DURBAN", "FANGCHENG">>              :> 6200 ) @@
    ( <<"QINGDAO", "FANGCHENG">>             :> 1420 ) @@
    ( <<"SHANGHAI", "FANGCHENG">>            :> 1100 ) @@
    ( <<"RICHARDS BAY", "FANGCHENG">>        :> 6400 ) @@
    ( <<"PORT LOUIS", "FANGCHENG">>          :> 4700 ) @@
    ( <<"PORT LOUIS", "KRISHNAPATNAM">>      :> 2400 ) @@
    ( <<"PORT LOUIS", "QINGDAO">>            :> 5900 ) @@
    ( <<"PORT LOUIS", "SHANGHAI">>           :> 5600 ) @@
    ( <<"PORT LOUIS", "ROTTERDAM">>          :> 7800 ) @@
    ( <<"PORT LOUIS", "SINGAPORE">>          :> 3300 ) @@
    ( <<"PORT LOUIS", "FUJAIRAH">>           :> 2500 )

Normalized(estimates) ==
    [ p \in (DOMAIN estimates) \cup { <<q[2], q[1]>> : q \in DOMAIN estimates } |->
        IF p \in DOMAIN estimates THEN estimates[p]
        ELSE estimates[<<p[2], p[1]>>] ]

normalized_estimates == Normalized(estimated_distances)

\* first (f, t), in the order of the nested loops, for which the table has
\* a forward or a reverse entry
RECURSIVE TableScan(_, _, _, _, _)
TableScan(table, fs, ts, i, j) ==
    IF i > Len(fs) THEN [distance |-> NotFound, source |-> "NOT_FOUND"]
    ELSE IF j > Len(ts) THEN TableScan(table, fs, ts, i + 1, 1)
    ELSE IF <<fs[i], ts[j]>> \in DOMAIN table
         THEN [distance |-> table[<<fs[i], ts[j]>>], source |-> "CSV"]
    ELSE IF <<ts[j], fs[i]>> \in DOMAIN table
         THEN [distance |-> table[<<ts[j], fs[i]>>], source |-> "CSV_REVERSE"]
    ELSE TableScan(table, fs, ts, i, j + 1)

RECURSIVE EstimateScan(_, _, _, _, _)
EstimateScan(estimates, fs, ts, i, j) ==
    IF i > Len(fs) THEN [distance |-> NotFound, source |-> "NOT_FOUND"]
    ELSE IF j > Len(ts) THEN EstimateScan(estimates, fs, ts, i + 1, 1)
    ELSE IF <<fs[i], ts[j]>> \in DOMAIN estimates
         THEN [distance |-> estimates[<<fs[i], ts[j]>>], source |-> "ESTIMATE"]
    ELSE EstimateScan(estimates, fs, ts, i, j + 1)

\* get_distance_with_source over the table self.distances and the estimates
\* self._normalized_estimates
distance_with_source(table, estimates, port_from, port_to) ==
    LET Estimated(from_options, to_options, tab) ==
            IF tab.source # "NOT_FOUND" THEN tab
            ELSE EstimateScan(estimates, from_options, to_options, 1, 1)
        Resolved(from_options, to_options) ==
            IF Range(from_options) \cap Range(to_options) # {}
            THEN [distance |-> 0, source |-> "CSV"]
            ELSE Estimated(from_options, to_options,
                           TableScan(table, from_options, to_options, 1, 1))
    IN  Resolved(normalize_port(port_from), normalize_port(port_to))

get_distance_with_source(port_from, port_to) ==
    distance_with_source(distances, normalized_estimates, port_from, port_to)

\* None is NotFound
get_distance(port_from, port_to) ==
    get_distance_with_source(port_from, port_to).distance

(***************************************************************************)
(* Bunker Price Table                                                      *)
(***************************************************************************)
\* create_bunker_prices(): port -> <<VLSFO, MGO>>, in dictionary order
bunker_prices ==
    << <<"Singapore", 490, 649>>, <<"Fujairah", 478, 638>>,
       <<"Durban", 437, 510>>, <<"Rotterdam", 467, 613>>,
       <<"Gibraltar", 474, 623>>, <<"Port Louis", 454, 583>>,
       <<"Qingdao", 643, 833>>, <<"Shanghai", 645, 836>>,
       <<"Richards Bay", 441, 519>> >>

\* self.prices.get(key, {}).get(fuel_type, default)
PriceOf(key, fuel_type, default) ==
    LET Held(rows) ==
            IF rows = {} THEN default
            ELSE LET i == CHOOSE i \in rows : TRUE
                 IN  IF fuel_type = "VLSFO" THEN bunker_prices[i][2]
                                            ELSE bunker_prices[i][3]
    IN  Held({i \in DOMAIN bunker_prices : bunker_prices[i][1] = key})

RECURSIVE DirectPrice(_, _, _)
DirectPrice(k, port_upper, fuel_type) ==
    IF k > Len(bunker_prices) THEN NotFound
    ELSE IF Contains(port_upper, Upper(bunker_prices[k][1]))
            \/ Contains(Upper(bunker_prices[k][1]), port_upper)
         THEN IF fuel_type = "VLSFO" THEN bunker_prices[k][2] ELSE bunker_prices[k][3]
         ELSE DirectPrice(k + 1, port_upper, fuel_type)

AnyIn(words, port_upper) == \E w \in words : Contains(port_upper, w)

\* the regional fallback of get_price: the hub whose prices stand in for a
\* port the table does not hold, with the default of the lookup
RegionalHub(port_upper) ==
    IF AnyIn({"CHINA", "QINGDAO", "FANGCHENG", "CAOFEIDIAN", "LIANYUNGANG"}, port_upper)
    THEN <<"Qingdao", 643>>
    ELSE IF AnyIn({"SINGAPORE", "THAILAND", "MAP TA PHUT"}, port_upper)
    THEN <<"Singapore", 490>>
    ELSE IF AnyIn({"AUSTRALIA", "HEDLAND", "DAMPIER"}, port_upper)
    THEN <<"Singapore", 490>>
    ELSE IF AnyIn({"BRAZIL", "ITAGUAI", "TUBARAO", "MADEIRA"}, port_upper)
    THEN <<"Gibraltar", 474>>
    ELSE IF AnyIn({"GUINEA", "KAMSAR", "AFRICA"}, port_upper)
    THEN <<"Gibraltar", 474>>
    ELSE IF AnyIn({"INDIA", "PARADIP", "MUNDRA", "KANDLA"}, port_upper)
    THEN <<"Fujairah", 478>>
    ELSE <<"Singapore", 490>>

get_price(port, fuel_type) ==
    LET Regional(hub) == PriceOf(hub[1], fuel_type, hub[2])
        Found(port_upper, direct) ==
            IF direct # NotFound THEN direct
            ELSE Regional(RegionalHub(port_upper))
        Priced(port_upper) ==
            Found(port_upper, DirectPrice(1, port_upper, fuel_type))
    IN  Priced(Upper(port))

(***************************************************************************)
(* FreightCalculator: self.distances and self.bunker_prices.  The two      *)
(* collaborators are held as the tables of their lookups over the ports    *)
(* that the fleet, the cargoes and the bunkering hubs name.                *)
(***************************************************************************)
Ports ==
    { "QINGDAO", "MAP TA PHUT", "ROTTERDAM", "SINGAPORE", "ATLANTIS",
      "PORT HEDLAND", "KAMSAR ANCHORAGE", "ITAGUAI", "DAGANG (QINGDAO)",
      "FANGCHENG", "PORT LOUIS", "KRISHNAPATNAM", "GWANGYANG",
      "PONTA DA MADEIRA",
      "Singapore", "Fujairah", "Rotterdam", "Gibraltar", "Durban",
      "Qingdao", "Shanghai", "Port Louis", "Richards Bay" }

FuelTypes == {"VLSFO", "MGO"}

FreightCalculator ==
    [ distances     |-> [leg \in Ports \X Ports |-> get_distance(leg[1], leg[2])],
      bunker_prices |-> [at \in Ports \X FuelTypes |-> get_price(at[1], at[2])] ]

\* self.distances.get_distance(port_from, port_to)
DistanceOf(self, port_from, port_to) == self.distances[<<port_from, port_to>>]

\* self.bunker_prices.get_price(port, fuel_type)
PriceAt(self, port, fuel_type) == self.bunker_prices[<<port, fuel_type>>]


(***************************************************************************)
(* Fleet and cargo records (Vessel, Cargo dataclasses).  Dates are day     *)
(* numbers counted from 1 Feb 2026; half_freight_threshold 0 is None.      *)
(***************************************************************************)
MkVessel(name, dwt, hire_rate, current_port, etd, rob_vlsfo, rob_mgo, is_cargill) ==
    [ name |-> name, dwt |-> dwt, hire_rate |-> hire_rate,
      speed_laden |-> 135, speed_ballast |-> 145,
      speed_laden_eco |-> 120, speed_ballast_eco |-> 125,
      fuel_laden_vlsfo |-> 600, fuel_laden_mgo |-> 20,
      fuel_ballast_vlsfo |-> 550, fuel_ballast_mgo |-> 20,
      fuel_laden_eco_vlsfo |-> 420, fuel_laden_eco_mgo |-> 20,
      fuel_ballast_eco_vlsfo |-> 380, fuel_ballast_eco_mgo |-> 20,
      port_idle_mgo |-> 20, port_working_mgo |-> 30,
      current_port |-> current_port, etd |-> etd,
      bunker_rob_vlsfo |-> rob_vlsfo, bunker_rob_mgo |-> rob_mgo,
      is_cargill |-> is_cargill ]

MkCargo(name, quantity, tolerance, laycan_start, laycan_end, freight_rate, load_port, load_rate, load_turn_time, discharge_port, discharge_rate, discharge_turn_time, port_cost_load, port_cost_discharge, commission, is_cargill, half_freight_threshold) ==
    [ name |-> name, quantity |-> quantity, quantity_tolerance |-> tolerance,
      laycan_start |-> laycan_start, laycan_end |-> laycan_end,
      freight_rate |-> freight_rate,
      load_port |-> load_port, load_rate |-> load_rate,
      load_turn_time |-> load_turn_time,
      discharge_port |-> discharge_port, discharge_rate |-> discharge_rate,
      discharge_turn_time |-> discharge_turn_time,
      port_cost_load |-> port_cost_load,
      port_cost_discharge |-> port_cost_discharge,
      commission |-> commission, is_cargill |-> is_cargill,
      half_freight_threshold |-> half_freight_threshold ]

\* owned vessels as create_cargill_vessels() builds them (Capesize speed and
\* consumption profile), placed at ports of the distance table above.
\* GOLDEN ASCENT never needs bunkers, BLUE HERON is too small for the larger
\* cargoes and LOST STAR lies at a port that resolves to no distance.
OwnedCatalog ==
    << MkVessel("ANN BELL", 180803, 11750, "QINGDAO", 24, 40130, 4510, TRUE),
       MkVessel("OCEAN HORIZON", 181550, 15750, "MAP TA PHUT", 28, 26580, 6430, TRUE),
       MkVessel("PACIFIC GLORY", 182320, 14800, "ROTTERDAM", 37, 60190, 9810, TRUE),
       MkVessel("GOLDEN ASCENT", 179965, 13950, "QINGDAO", 30, 500000, 30000, TRUE),
       MkVessel("BLUE HERON", 150000, 9000, "SINGAPORE", 26, 30000, 4000, TRUE),
       MkVessel("LOST STAR", 181000, 12000, "ATLANTIS", 20, 40000, 4000, TRUE) >>

\* hireable vessels as create_market_vessels() builds them (hire_rate 0)
MarketCatalog ==
    << MkVessel("ATLANTIC FORTUNE", 181200, 0, "SINGAPORE", 29, 51240, 3890, FALSE),
       MkVessel("PACIFIC VANGUARD", 182050, 0, "QINGDAO", 25, 42030, 5100, FALSE),
       MkVessel("CORAL EMPEROR", 180450, 0, "ROTTERDAM", 40, 38000, 4500, FALSE),
       MkVessel("IRON CENTURY", 181000, 0, "MAP TA PHUT", 45, 45000, 4000, FALSE) >>

\* committed cargoes as create_cargill_cargoes() builds them; Short Haul has
\* a laycan that most of the fleet misses
CommittedCatalog ==
    << MkCargo("BHP Iron Ore", 160000, 10, 34, 38, 9, "PORT HEDLAND", 80000, 12,
               "QINGDAO", 30000, 24, 260000, 120000, 375, TRUE, 176000),
       MkCargo("EGA Bauxite", 180000, 10, 60, 68, 23, "KAMSAR ANCHORAGE", 30000, 12,
               "QINGDAO", 25000, 12, 0, 0, 125, TRUE, 0),
       MkCargo("CSN Iron Ore", 180000, 10, 59, 66, 12, "ITAGUAI", 60000, 12,
               "QINGDAO", 30000, 24, 75000, 90000, 375, TRUE, 0),
       MkCargo("Short Haul", 150000, 5, 30, 33, 7, "PORT HEDLAND", 80000, 12,
               "QINGDAO", 30000, 24, 100000, 100000, 250, TRUE, 0) >>

\* optional cargoes as create_market_cargoes() builds them (freight_rate 0:
\* the rate is still to be bid)
OptionalCatalog ==
    << MkCargo("Rio Tinto Iron Ore", 170000, 10, 41, 47, 0, "PORT HEDLAND", 80000, 12,
               "QINGDAO", 30000, 24, 240000, 0, 375, FALSE, 0),
       MkCargo("Vale Iron Ore", 190000, 10, 61, 68, 0, "ITAGUAI", 60000, 12,
               "QINGDAO", 30000, 24, 75000, 95000, 375, FALSE, 0),
       MkCargo("Guinea Alumina", 175000, 10, 62, 70, 0, "KAMSAR ANCHORAGE", 30000, 12,
               "QINGDAO", 25000, 12, 0, 0, 250, FALSE, 0) >>

(***************************************************************************)
(* Voyage Economics Engine                                                 *)
(***************************************************************************)
\* VoyageConfig
misc_costs == 15000

vessel_constants == 3500

port_delay_load_fraction == 50

min_voyage_days == 1

bunker_threshold_mt == 5000

BunkerLumpsumFee == 5000

BunkerTieBreak == 1000

\* ALL_BUNKER_PORTS / get_bunker_candidates
ALL_BUNKER_PORTS ==
    << "Singapore", "Fujairah", "Rotterdam", "Gibraltar", "Durban",
       "Qingdao", "Shanghai", "Port Louis", "Richards Bay" >>

NoPort == "None"

\* floor(x * m / d) without forming x * m
MulDiv(x, m, d) == (x \div d) * m + ((x % d) * m) \div d

\* cost in dollars of fuel (hundredths of a tonne) at a price in $/tonne
FuelCost(fuel, price) == (fuel * price) \div 100

\* fuel (hundredths of a tonne) burnt in `ticks` at `rate` tenths of a tonne a day
FuelBurn(ticks, rate) == (ticks * rate) \div 100

\* steaming time in ticks for a distance at a speed in tenths of a knot
SteamingTicks(distance, speed) == (distance * 10000) \div (speed * 24)


\* one iteration of the candidate loop of find_optimal_bunker_port: `best`
\* after looking at bunker_port
BunkerCandidateStep(self, best, bunker_port, vessel, cargo, direct_distance, bunker_needed_vlsfo, bunker_needed_mgo, current_speed_ballast, fuel_consumption_rate_vlsfo, fuel_consumption_rate_mgo, hire_rate) ==
    LET leg1 == DistanceOf(self, vessel.current_port, bunker_port)
        leg2 == DistanceOf(self, bunker_port, cargo.load_port)
        detour_distance == (leg1 + leg2) - direct_distance
        vlsfo_price == PriceAt(self, bunker_port, "VLSFO")
        mgo_price   == PriceAt(self, bunker_port, "MGO")
        bunker_fuel_cost ==
            FuelCost(bunker_needed_vlsfo, vlsfo_price)
              + FuelCost(bunker_needed_mgo, mgo_price)
        lumpsum_fee == BunkerLumpsumFee
        detour_days == SteamingTicks(detour_distance, current_speed_ballast)
        detour_fuel_cost ==
            FuelCost(FuelBurn(detour_days, fuel_consumption_rate_vlsfo), vlsfo_price)
              + FuelCost(FuelBurn(detour_days, fuel_consumption_rate_mgo), mgo_price)
        detour_hire_cost == (detour_days * hire_rate) \div TicksPerDay
        Better(total_cost) ==
            \/ total_cost < best.cost
            \/ /\ Abs(total_cost - best.cost) < BunkerTieBreak
               /\ (leg1 + leg2) < (best.leg1 + best.leg2)
        Candidate(total_cost) ==
            [port |-> bunker_port, cost |-> total_cost, leg1 |-> leg1,
             leg2 |-> leg2, bunker_cost |-> bunker_fuel_cost + lumpsum_fee]
        Pick(total_cost) ==
            IF Better(total_cost) THEN Candidate(total_cost) ELSE best
    IN  IF leg1 = NotFound \/ leg1 = 0 \/ leg2 = NotFound \/ leg2 = 0
        THEN best
        ELSE Pick(bunker_fuel_cost + lumpsum_fee + detour_fuel_cost + detour_hire_cost)

RECURSIVE BunkerCandidateLoop(_, _, _, _, _, _, _, _, _, _, _, _, _)
BunkerCandidateLoop(self, k, candidates, best, vessel, cargo, direct_distance, bunker_needed_vlsfo, bunker_needed_mgo, current_speed_ballast, fuel_consumption_rate_vlsfo, fuel_consumption_rate_mgo, hire_rate) ==
    IF k > Len(candidates) THEN best
    ELSE BunkerCandidateLoop(self, k + 1, candidates,
            BunkerCandidateStep(self, best, candidates[k], vessel, cargo, direct_distance,
                bunker_needed_vlsfo, bunker_needed_mgo, current_speed_ballast,
                fuel_consumption_rate_vlsfo, fuel_consumption_rate_mgo, hire_rate),
            vessel, cargo, direct_distance,
            bunker_needed_vlsfo, bunker_needed_mgo, current_speed_ballast,
            fuel_consumption_rate_vlsfo, fuel_consumption_rate_mgo, hire_rate)

\* FreightCalculator.find_optimal_bunker_port: (selected_port, leg1, leg2,
\* savings, bunker_cost); baseline_cost is kept for the cost comparison
find_optimal_bunker_port(self, vessel, cargo, bunker_needed_vlsfo, bunker_needed_mgo, current_speed_ballast, fuel_consumption_rate_vlsfo, fuel_consumption_rate_mgo, hire_rate) ==
    LET Start(direct_distance, baseline_cost) ==
            [port |-> NoPort, cost |-> baseline_cost, leg1 |-> 0,
             leg2 |-> direct_distance, bunker_cost |-> baseline_cost]
        Chosen(baseline_cost, best) ==
            [port |-> best.port, leg1 |-> best.leg1, leg2 |-> best.leg2,
             savings |-> baseline_cost - best.cost, bunker_cost |-> best.bunker_cost,
             baseline_cost |-> baseline_cost, best_cost |-> best.cost]
        Search(direct_distance, baseline_cost) ==
            IF direct_distance = NotFound \/ direct_distance = 0
            THEN [port |-> NoPort, leg1 |-> 0,
                  leg2 |-> IF direct_distance = NotFound THEN 0 ELSE direct_distance,
                  savings |-> 0, bunker_cost |-> 0, baseline_cost |-> 0, best_cost |-> 0]
            ELSE Chosen(baseline_cost,
                    BunkerCandidateLoop(self, 1, ALL_BUNKER_PORTS,
                        Start(direct_distance, baseline_cost), vessel, cargo,
                        direct_distance, bunker_needed_vlsfo, bunker_needed_mgo,
                        current_speed_ballast, fuel_consumption_rate_vlsfo,
                        fuel_consumption_rate_mgo, hire_rate))
    IN  Search(DistanceOf(self, vessel.current_port, cargo.load_port),
               FuelCost(bunker_needed_vlsfo, PriceAt(self, cargo.load_port, "VLSFO"))
                 + FuelCost(bunker_needed_mgo, PriceAt(self, cargo.load_port, "MGO"))
                 + BunkerLumpsumFee)


\* variant: the scenario multiplier divides the price
AdjustedFuelCostInverted(fuel, price, bunker_price_adjustment) ==
    (FuelCost(fuel, price) * 100) \div bunker_price_adjustment

\* cost of fuel at a price scaled by the scenario multiplier (percent)
AdjustedFuelCost(fuel, price, bunker_price_adjustment) ==
    (FuelCost(fuel, price) * bunker_price_adjustment) \div 100

\* section 5: the laycan test on the arrival at the load port
\* variant: every arrival counts as inside the laycan
CanMakeLaycanAlways(arrival_at_loadport, laycan_end) == TRUE

CanMakeLaycan(arrival_at_loadport, laycan_end) == arrival_at_loadport <= laycan_end

\* variant: any shortfall at all calls for a stop
NeedsBunkeringAtAll(total_bunker_needed) == total_bunker_needed > 0

\* section 8a: a bunkering stop is needed
NeedsBunkering(total_bunker_needed) == total_bunker_needed > bunker_threshold_mt

\* section 10: hire cost, for Cargill vessels only
HireCost(vessel, total_days) ==
    IF vessel.is_cargill
    THEN (total_days * vessel.hire_rate) \div TicksPerDay
    ELSE 0

\* section 11: total costs
\* variant: the bunkering lumpsum fee is left out of the costs
TotalCostsWithoutLumpsum(total_bunker_cost, hire_cost, port_costs, bunkering_lumpsum_fee) ==
    total_bunker_cost + hire_cost + port_costs + misc_costs

TotalCosts(total_bunker_cost, hire_cost, port_costs, bunkering_lumpsum_fee) ==
    total_bunker_cost + hire_cost + port_costs + misc_costs + bunkering_lumpsum_fee

\* section 12: time charter equivalent, $/day
Tce(net_freight, voyage_costs, total_days) ==
    IF total_days > min_voyage_days
    THEN MulDiv(net_freight - voyage_costs, TicksPerDay, total_days)
    ELSE 0

VoyageError(message) == [ok |-> FALSE, error |-> message, can_make_laycan |-> FALSE]

(***************************************************************************)
(* FreightCalculator.calculate_voyage, section by section.  Each operator  *)
(* below is a run of consecutive sections of the method; it receives the   *)
(* local variables that the earlier sections have assigned as records      *)
(* (d: distances and speeds, t: quantities and times, f: fuel, b: the      *)
(* bunkering stop, m: money) and returns the ones it assigns.  Names       *)
(* ending in 0 are the values a variable has before section 8a reassigns   *)
(* it.  extra_port_delay_days is in ticks, bunker_price_adjustment in      *)
(* percent.                                                                *)
(***************************************************************************)
\* sections 1-2: distances, speeds, consumption rates and steaming times
VoyageLegs(self, vessel, cargo, use_eco_speed) ==
    LET Legs(ballast_distance0, laden_distance, speed_ballast, speed_laden) ==
            [ ballast_distance0 |-> ballast_distance0,
              laden_distance |-> laden_distance,
              speed_ballast |-> speed_ballast,
              fuel_ballast_vlsfo |-> IF use_eco_speed THEN vessel.fuel_ballast_eco_vlsfo
                                                      ELSE vessel.fuel_ballast_vlsfo,
              fuel_ballast_mgo   |-> IF use_eco_speed THEN vessel.fuel_ballast_eco_mgo
                                                      ELSE vessel.fuel_ballast_mgo,
              fuel_laden_vlsfo   |-> IF use_eco_speed THEN vessel.fuel_laden_eco_vlsfo
                                                      ELSE vessel.fuel_laden_vlsfo,
              fuel_laden_mgo     |-> IF use_eco_speed THEN vessel.fuel_laden_eco_mgo
                                                      ELSE vessel.fuel_laden_mgo,
              ballast_days0 |-> SteamingTicks(ballast_distance0, speed_ballast),
              laden_days    |-> SteamingTicks(laden_distance, speed_laden) ]
    IN  Legs(DistanceOf(self, vessel.current_port, cargo.load_port),
             DistanceOf(self, cargo.load_port, cargo.discharge_port),
             IF use_eco_speed THEN vessel.speed_ballast_eco ELSE vessel.speed_ballast,
             IF use_eco_speed THEN vessel.speed_laden_eco ELSE vessel.speed_laden)

\* sections 3-6: cargo quantity, port time, laycan check, voyage duration
VoyageTimes(vessel, cargo, extra_port_delay_days, d) ==
    LET max_by_cargo  == (cargo.quantity * (100 + cargo.quantity_tolerance)) \div 100
        max_by_vessel == vessel.dwt - vessel_constants
        Halved(total_cargo_qty) ==
            cargo.half_freight_threshold # 0
              /\ total_cargo_qty > cargo.half_freight_threshold
        LoadDays(total_cargo_qty) ==
            (total_cargo_qty * TicksPerDay) \div cargo.load_rate
              + (cargo.load_turn_time * TicksPerDay) \div 24
              + (extra_port_delay_days * port_delay_load_fraction) \div 100
        DischargeDays(total_cargo_qty) ==
            (total_cargo_qty * TicksPerDay) \div cargo.discharge_rate
              + (cargo.discharge_turn_time * TicksPerDay) \div 24
              + (extra_port_delay_days * (100 - port_delay_load_fraction)) \div 100
        WaitingDays(arrival_at_loadport, laycan_start) ==
            IF arrival_at_loadport < laycan_start
            THEN laycan_start - arrival_at_loadport
            ELSE 0
        Times(total_cargo_qty, arrival_at_loadport, laycan_start, laycan_end, load_days, discharge_days, waiting_days) ==
            [ min_by_cargo |-> (cargo.quantity * (100 - cargo.quantity_tolerance)) \div 100,
              total_cargo_qty |-> total_cargo_qty,
              full_freight_qty |-> IF Halved(total_cargo_qty)
                                   THEN cargo.half_freight_threshold
                                   ELSE total_cargo_qty,
              half_freight_qty |-> IF Halved(total_cargo_qty)
                                   THEN total_cargo_qty - cargo.half_freight_threshold
                                   ELSE 0,
              turn_days |-> ((cargo.load_turn_time + cargo.discharge_turn_time)
                                * TicksPerDay) \div 24,
              load_days |-> load_days,
              discharge_days |-> discharge_days,
              arrival_at_loadport |-> arrival_at_loadport,
              laycan_start |-> laycan_start,
              laycan_end |-> laycan_end,
              can_make_laycan |-> CanMakeLaycan(arrival_at_loadport, laycan_end),
              waiting_days |-> waiting_days,
              total_days0 |-> d.ballast_days0 + waiting_days + load_days
                                + d.laden_days + discharge_days ]
        Timed(total_cargo_qty, arrival_at_loadport, laycan_start) ==
            Times(total_cargo_qty, arrival_at_loadport, laycan_start,
                  cargo.laycan_end * TicksPerDay,
                  LoadDays(total_cargo_qty), DischargeDays(total_cargo_qty),
                  WaitingDays(arrival_at_loadport, laycan_start))
    IN  Timed(Min2(max_by_cargo, max_by_vessel),
              vessel.etd * TicksPerDay + d.ballast_days0,
              cargo.laycan_start * TicksPerDay)

\* sections 7-8: fuel consumption and the bunker needed beyond what is on board
VoyageFuel(vessel, d, t) ==
    LET Fuel(vlsfo_ballast0, mgo_ballast0, vlsfo_laden, mgo_laden, mgo_working, mgo_idle0) ==
            [ vlsfo_ballast0 |-> vlsfo_ballast0, mgo_ballast0 |-> mgo_ballast0,
              vlsfo_laden |-> vlsfo_laden, mgo_laden |-> mgo_laden,
              mgo_working |-> mgo_working, mgo_idle0 |-> mgo_idle0,
              vlsfo_consumed0 |-> vlsfo_ballast0 + vlsfo_laden,
              mgo_consumed0 |-> mgo_ballast0 + mgo_laden + mgo_working + mgo_idle0,
              bunker_needed_vlsfo0 |->
                  Max2(0, (vlsfo_ballast0 + vlsfo_laden) - vessel.bunker_rob_vlsfo),
              bunker_needed_mgo0 |->
                  Max2(0, (mgo_ballast0 + mgo_laden + mgo_working + mgo_idle0)
                            - vessel.bunker_rob_mgo) ]
        working_days == t.load_days + t.discharge_days - t.turn_days
        idle_days0   == t.waiting_days + t.turn_days
    IN  Fuel(FuelBurn(d.ballast_days0, d.fuel_ballast_vlsfo),
             FuelBurn(d.ballast_days0, d.fuel_ballast_mgo),
             FuelBurn(d.laden_days, d.fuel_laden_vlsfo),
             FuelBurn(d.laden_days, d.fuel_laden_mgo),
             FuelBurn(working_days, vessel.port_working_mgo),
             FuelBurn(idle_days0, vessel.port_idle_mgo))

\* section 8a: the bunkering stop; opt is what find_optimal_bunker_port
\* returned
VoyageBunkering(self, vessel, cargo, d, t, f, needs_bunkering, opt) ==
    LET Stop(rerouted, ballast_days, vlsfo_consumed, mgo_rerouted, price_port) ==
            [ ballast_days |-> ballast_days,
              vlsfo_consumed |-> vlsfo_consumed,
              bunker_needed_vlsfo |->
                  IF rerouted THEN Max2(0, vlsfo_consumed - vessel.bunker_rob_vlsfo)
                              ELSE f.bunker_needed_vlsfo0,
              bunker_needed_mgo |->
                  IF rerouted THEN Max2(0, mgo_rerouted - vessel.bunker_rob_mgo)
                              ELSE f.bunker_needed_mgo0,
              vlsfo_price |-> PriceAt(self, price_port, "VLSFO"),
              mgo_price   |-> PriceAt(self, price_port, "MGO"),
              selected_bunker_port |-> IF ~needs_bunkering THEN NoPort ELSE price_port,
              leg1_distance |-> IF rerouted THEN opt.leg1 ELSE 0,
              leg2_distance |-> IF rerouted THEN opt.leg2 ELSE d.ballast_distance0,
              bunker_savings |-> IF rerouted THEN opt.savings ELSE 0,
              extra_bunkering_days |-> IF needs_bunkering THEN 1 * TicksPerDay ELSE 0,
              extra_mgo_for_bunker |->
                  IF needs_bunkering THEN FuelBurn(1 * TicksPerDay, vessel.port_idle_mgo)
                                     ELSE 0,
              bunkering_lumpsum_fee |-> IF needs_bunkering THEN BunkerLumpsumFee ELSE 0,
              num_bunkering_stops |-> IF needs_bunkering THEN 1 ELSE 0,
              mgo_consumed |->
                  mgo_rerouted
                    + (IF needs_bunkering
                       THEN FuelBurn(1 * TicksPerDay, vessel.port_idle_mgo) ELSE 0),
              total_days |-> t.total_days0
                               + (IF needs_bunkering THEN 1 * TicksPerDay ELSE 0) ]
        Burnt(rerouted, ballast_days) ==
            Stop(rerouted, ballast_days,
                 (IF rerouted THEN FuelBurn(ballast_days, d.fuel_ballast_vlsfo)
                              ELSE f.vlsfo_ballast0) + f.vlsfo_laden,
                 (IF rerouted THEN FuelBurn(ballast_days, d.fuel_ballast_mgo)
                              ELSE f.mgo_ballast0)
                    + f.mgo_laden + f.mgo_working + f.mgo_idle0,
                 IF rerouted THEN opt.port ELSE cargo.load_port)
        Routed(rerouted) ==
            Burnt(rerouted,
                  IF rerouted THEN SteamingTicks(opt.leg1 + opt.leg2, d.speed_ballast)
                              ELSE d.ballast_days0)
    IN  Routed(needs_bunkering /\ opt.port # NoPort)

\* sections 8a (cost of the fuel) and 9-12: revenue, costs, profit and TCE
VoyageMoney(vessel, cargo, bunker_price_adjustment, t, b) ==
    LET Money(total_bunker_cost, bunker_cost_vlsfo, bunker_cost_mgo, gross_freight, net_freight, hire_cost, port_costs) ==
            [ bunker_cost_vlsfo |-> bunker_cost_vlsfo,
              bunker_cost_mgo |-> bunker_cost_mgo,
              total_bunker_cost |-> total_bunker_cost,
              gross_freight |-> gross_freight,
              commission_cost |-> gross_freight - net_freight,
              net_freight |-> net_freight,
              hire_cost |-> hire_cost,
              port_costs |-> port_costs,
              total_costs |-> TotalCosts(total_bunker_cost, hire_cost, port_costs,
                                         b.bunkering_lumpsum_fee),
              gross_profit |-> net_freight - total_bunker_cost - port_costs - misc_costs,
              net_profit |-> net_freight
                               - TotalCosts(total_bunker_cost, hire_cost, port_costs,
                                            b.bunkering_lumpsum_fee),
              tce |-> Tce(net_freight, total_bunker_cost + port_costs + misc_costs,
                          b.total_days) ]
        Netted(bunker_cost_vlsfo, bunker_cost_mgo, gross_freight) ==
            Money(bunker_cost_vlsfo + bunker_cost_mgo, bunker_cost_vlsfo,
                  bunker_cost_mgo, gross_freight,
                  gross_freight - (gross_freight * cargo.commission) \div 10000,
                  HireCost(vessel, b.total_days),
                  cargo.port_cost_load + cargo.port_cost_discharge)
    IN  Netted(AdjustedFuelCost(b.vlsfo_consumed, b.vlsfo_price, bunker_price_adjustment),
               AdjustedFuelCost(b.mgo_consumed, b.mgo_price, bunker_price_adjustment),
               t.full_freight_qty * cargo.freight_rate
                 + (t.half_freight_qty * cargo.freight_rate) \div 2)

\* section 13: the VoyageResult
VoyageResult(vessel, cargo, d, t, b, m) ==
    [ ok |-> TRUE, error |-> "",
      vessel_name |-> vessel.name, cargo_name |-> cargo.name,
      ballast_days |-> Round2(b.ballast_days), laden_days |-> Round2(d.laden_days),
      load_days |-> Round2(t.load_days), discharge_days |-> Round2(t.discharge_days),
      total_days |-> Round2(b.total_days),
      arrival_date |-> t.arrival_at_loadport,
      laycan_start |-> t.laycan_start, laycan_end |-> t.laycan_end,
      can_make_laycan |-> t.can_make_laycan,
      waiting_days |-> Round2(t.waiting_days),
      cargo_quantity |-> t.total_cargo_qty,
      gross_freight |-> m.gross_freight, commission_cost |-> m.commission_cost,
      net_freight |-> m.net_freight,
      bunker_cost_vlsfo |-> m.bunker_cost_vlsfo, bunker_cost_mgo |-> m.bunker_cost_mgo,
      total_bunker_cost |-> m.total_bunker_cost, hire_cost |-> m.hire_cost,
      port_costs |-> m.port_costs, misc_costs |-> misc_costs,
      total_costs |-> m.total_costs,
      gross_profit |-> m.gross_profit, net_profit |-> m.net_profit, tce |-> m.tce,
      vlsfo_consumed |-> b.vlsfo_consumed, mgo_consumed |-> b.mgo_consumed,
      bunker_needed_vlsfo |-> b.bunker_needed_vlsfo,
      bunker_needed_mgo |-> b.bunker_needed_mgo,
      num_bunkering_stops |-> b.num_bunkering_stops,
      extra_bunkering_days |-> Round2(b.extra_bunkering_days),
      bunkering_lumpsum_fee |-> b.bunkering_lumpsum_fee,
      extra_mgo_for_bunker |-> b.extra_mgo_for_bunker,
      selected_bunker_port |-> b.selected_bunker_port,
      bunker_port_savings |-> b.bunker_savings,
      ballast_leg_to_bunker |-> b.leg1_distance,
      bunker_to_load_leg |-> b.leg2_distance,
      direct_ballast_distance |-> d.ballast_distance0,
      bunker_fuel_vlsfo_qty |-> b.bunker_needed_vlsfo,
      bunker_fuel_mgo_qty |-> b.bunker_needed_mgo ]

\* calculate_voyage from section 8a on
VoyageAfterFuel(self, vessel, cargo, bunker_price_adjustment, d, t, f) ==
    LET Priced(b) ==
            VoyageResult(vessel, cargo, d, t, b,
                         VoyageMoney(vessel, cargo, bunker_price_adjustment, t, b))
    IN  Priced(VoyageBunkering(self, vessel, cargo, d, t, f,
                   NeedsBunkering(f.bunker_needed_vlsfo0 + f.bunker_needed_mgo0),
                   find_optimal_bunker_port(self, vessel, cargo,
                       f.bunker_needed_vlsfo0, f.bunker_needed_mgo0, d.speed_ballast,
                       d.fuel_ballast_vlsfo, d.fuel_ballast_mgo, vessel.hire_rate)))

\* variant: the loaded quantity is not held against the cargo's minimum
VoyageAfterLegsAnyQuantity(self, vessel, cargo, extra_port_delay_days, bunker_price_adjustment, d) ==
    LET Fuelled(t) ==
            VoyageAfterFuel(self, vessel, cargo, bunker_price_adjustment, d, t,
                            VoyageFuel(vessel, d, t))
    IN  IF d.ballast_distance0 = NotFound
        THEN VoyageError("Cannot find distance (ballast)")
        ELSE IF d.laden_distance = NotFound
        THEN VoyageError("Cannot find distance (laden)")
        ELSE Fuelled(VoyageTimes(vessel, cargo, extra_port_delay_days, d))

\* calculate_voyage from section 3 on
VoyageAfterLegs(self, vessel, cargo, extra_port_delay_days, bunker_price_adjustment, d) ==
    LET Fuelled(t) ==
            IF t.total_cargo_qty < t.min_by_cargo
            THEN VoyageError("cannot meet minimum cargo requirement")
            ELSE VoyageAfterFuel(self, vessel, cargo, bunker_price_adjustment, d, t,
                                 VoyageFuel(vessel, d, t))
    IN  IF d.ballast_distance0 = NotFound
        THEN VoyageError("Cannot find distance (ballast)")
        ELSE IF d.laden_distance = NotFound
        THEN VoyageError("Cannot find distance (laden)")
        ELSE Fuelled(VoyageTimes(vessel, cargo, extra_port_delay_days, d))

calculate_voyage(self, vessel, cargo, use_eco_speed, extra_port_delay_days, bunker_price_adjustment) ==
    VoyageAfterLegs(self, vessel, cargo, extra_port_delay_days, bunker_price_adjustment,
                    VoyageLegs(self, vessel, cargo, use_eco_speed))

(***************************************************************************)
(* Single-pair voyage query                                                *)
(***************************************************************************)
VARIABLES q_vessel, q_cargo, q_eco, q_delay, q_adj, voyage, pc,
          pw, portfolio, fp, plans, baseline, tp, dm, bk, rt

vars == <<q_vessel, q_cargo, q_eco, q_delay, q_adj, voyage, pc, pw, portfolio,
          fp, plans, baseline, tp, dm, bk, rt>>

\* the value of a variable that the running scenario does not use
Idle == [idle |-> TRUE]

AllVessels == OwnedCatalog \o MarketCatalog

AllCargoes == CommittedCatalog \o OptionalCatalog

DelayChoices == {0, 2000, 3500}

AdjChoices == {100, 110, 150}

NoVoyage == [ok |-> FALSE, error |-> "not calculated", can_make_laycan |-> FALSE]

\* a parcel shifted between two berths of one port: a voyage of no duration
HarbourShift ==
    MkCargo("Harbour Shift", 10, 10, 20, 40, 9, "QINGDAO", 80000, 0,
            "DAGANG (QINGDAO)", 60000, 0, 0, 0, 0, TRUE, 0)

\* GOLDEN ASCENT with the speeds, consumptions, position and fuel on board
\* that create_cargill_vessels() gives it
GoldenAscent ==
    [ name |-> "GOLDEN ASCENT (FANGCHENG)", dwt |-> 179965, hire_rate |-> 13950,
      speed_laden |-> 130, speed_ballast |-> 140,
      speed_laden_eco |-> 118, speed_ballast_eco |-> 123,
      fuel_laden_vlsfo |-> 580, fuel_laden_mgo |-> 20,
      fuel_ballast_vlsfo |-> 530, fuel_ballast_mgo |-> 20,
      fuel_laden_eco_vlsfo |-> 410, fuel_laden_eco_mgo |-> 20,
      fuel_ballast_eco_vlsfo |-> 370, fuel_ballast_eco_mgo |-> 20,
      port_idle_mgo |-> 19, port_working_mgo |-> 31,
      current_port |-> "FANGCHENG", etd |-> 35,
      bunker_rob_vlsfo |-> 79330, bunker_rob_mgo |-> 1710,
      is_cargill |-> TRUE ]

\* a market coal cargo with the terms of Adaro Coal, offered for loading at
\* Port Louis
PortLouisCoal ==
    MkCargo("Port Louis Coal", 150000, 10, 68, 73, 0, "PORT LOUIS", 35000, 12,
            "KRISHNAPATNAM", 25000, 24, 90000, 0, 250, FALSE, 0)

InitVoyage ==
    /\ q_vessel \in Range(AllVessels) \cup {GoldenAscent}
    /\ q_cargo \in Range(AllCargoes) \cup {HarbourShift, PortLouisCoal}
    /\ q_eco \in BOOLEAN
    /\ q_delay \in DelayChoices
    /\ q_adj \in AdjChoices /\ rt = Idle
    /\ voyage = NoVoyage
    /\ pc = "query"
    /\ pw = Idle /\ portfolio = Idle
    /\ fp = Idle /\ plans = Idle /\ baseline = Idle /\ tp = Idle /\ dm = Idle /\ bk = Idle

CalculateVoyage ==
    /\ pc = "query"
    /\ voyage' = calculate_voyage(FreightCalculator, q_vessel, q_cargo, q_eco, q_delay, q_adj)
    /\ pc' = "costed"
    /\ UNCHANGED <<rt, bk, dm, tp, q_vessel, q_cargo, q_eco, q_delay, q_adj, pw, portfolio,
                   fp, plans, baseline>>

NextVoyage == CalculateVoyage

SpecVoyage == InitVoyage /\ [][NextVoyage]_vars


(***************************************************************************)
(* Conservation properties of a VoyageResult                               *)
(***************************************************************************)
Costed == pc = "costed" /\ voyage.ok

ComponentDays(r) ==
    r.ballast_days + r.waiting_days + r.load_days + r.laden_days
      + r.discharge_days + r.extra_bunkering_days

\* C9: in every VoyageResult total_days is the sum of ballast, waiting,
\* load, laden, discharge and extra bunkering days, within the rounding of
\* the seven reported values (each to 0.01 day, i.e. off by at most 5 ticks)
C9_TotalDaysIsSumOfComponents ==
    Costed => Abs(voyage.total_days - ComponentDays(voyage)) <= 7 * 5

NetProfitIdentity(r) ==
    r.net_profit = r.net_freight
                     - (r.total_bunker_cost + r.hire_cost + r.port_costs
                          + r.misc_costs + r.bunkering_lumpsum_fee)

\* hire_cost against the reported (rounded) total_days, in cents
HireIdentity(r, vessel) ==
    IF vessel.is_cargill
    THEN Abs(r.hire_cost * 100 - (r.total_days \div 10) * vessel.hire_rate)
           <= vessel.hire_rate \div 2 + 100
    ELSE r.hire_cost = 0

\* tce * total_days against net_freight - (bunker + port + misc), in cents;
\* the tolerance is what rounding total_days to 0.01 day and tce to the
\* model's whole dollar can contribute
TceIdentity(r) ==
    Abs(r.tce * (r.total_days \div 10)
          - 100 * (r.net_freight - (r.total_bunker_cost + r.port_costs + r.misc_costs)))
      <= (r.total_days \div 10) + Abs(r.tce) \div 2 + 2

\* C10 as stated: both identities hold for every VoyageResult
C10_ProfitAndTceIdentities ==
    Costed => /\ NetProfitIdentity(voyage)
              /\ HireIdentity(voyage, q_vessel)
              /\ TceIdentity(voyage)

\* C10 as amended: the TCE identity holds unless the voyage lasts at most
\* min_voyage_days, in which case tce is reported as 0
C10_ProfitAndTceIdentitiesAmended ==
    Costed => /\ NetProfitIdentity(voyage)
              /\ HireIdentity(voyage, q_vessel)
              /\ \/ TceIdentity(voyage)
                 \/ voyage.tce = 0 /\ voyage.total_days = 0

C10_Witness ==
    /\ Costed
    /\ q_vessel.is_cargill
    /\ voyage.num_bunkering_stops = 1
    /\ voyage.hire_cost > 0
    /\ voyage.tce # 0


(***************************************************************************)
(* itertools.combinations / permutations / product, as sequences in the    *)
(* order the iterators yield them (index tuples, 1-based)                  *)
(***************************************************************************)
PrependEach(x, ss) == [i \in DOMAIN ss |-> <<x>> \o ss[i]]

RECURSIVE CombinationsFrom(_, _, _)
CombinationsFrom(n, k, start) ==
    IF k = 0 THEN << <<>> >>
    ELSE IF start > n THEN <<>>
    ELSE PrependEach(start, CombinationsFrom(n, k - 1, start + 1))
           \o CombinationsFrom(n, k, start + 1)

RECURSIVE PermutationsFrom(_, _, _, _)
PermutationsFrom(n, k, used, i) ==
    IF k = 0 THEN << <<>> >>
    ELSE IF i > n THEN <<>>
    ELSE (IF i \in used THEN <<>>
          ELSE PrependEach(i, PermutationsFrom(n, k - 1, used \cup {i}, 1)))
           \o PermutationsFrom(n, k, used, i + 1)

\* combinations(range(n), k), as 1-based index tuples
combinations(n, k) == CombinationsFrom(n, k, 1)

\* permutations(range(n), k), as 1-based index tuples
permutations(n, k) == PermutationsFrom(n, k, {}, 1)

\* str comparison on the names of the model: position in sorted order
SortedNames ==
    << "ANN BELL", "ATLANTIC FORTUNE", "BHP Iron Ore", "BLUE HERON",
       "CORAL EMPEROR", "CSN Iron Ore", "EGA Bauxite", "GOLDEN ASCENT",
       "Guinea Alumina", "Harbour Shift", "IRON CENTURY", "LOST STAR",
       "OCEAN HORIZON", "PACIFIC GLORY", "PACIFIC VANGUARD",
       "Rio Tinto Iron Ore", "Short Haul", "Vale Iron Ore" >>

NameRank(name) == CHOOSE i \in DOMAIN SortedNames : SortedNames[i] = name

\* the names of a list of vessels or cargoes
Names(records) == [i \in DOMAIN records |-> records[i].name]

\* pandas unique(): first occurrences, in order
Unique(s) ==
    LET firsts == {i \in DOMAIN s : \A j \in 1..(i - 1) : s[j] # s[i]}
    IN  [k \in 1..Cardinality(firsts) |->
            s[CHOOSE i \in firsts : Cardinality({j \in firsts : j <= i}) = k]]

(***************************************************************************)
(* PortfolioOptimizer: pairwise assignment of vessels to cargoes           *)
(***************************************************************************)
\* scipy is installed
HAS_SCIPY == TRUE

\* the scenario values the voyage table is tabulated for
TableDelays == {0}

TableAdjustments == {100}

\* the FFA benchmark rate _calculate_option gives a cargo without a rate
estimated_rate(cargo) ==
    LET load_port == Upper(cargo.load_port)
    IN  IF AnyIn({"BRAZIL", "ITAGUAI", "TUBARAO"}, load_port) THEN 21
        ELSE IF AnyIn({"AUSTRALIA", "HEDLAND", "DAMPIER"}, load_port) THEN 9
        ELSE 15

temp_cargo(cargo) ==
    IF cargo.freight_rate = 0
    THEN [cargo EXCEPT !.freight_rate = estimated_rate(cargo)]
    ELSE cargo

\* self.calculator.calculate_voyage over the catalogs, for the scenario
\* values above
VoyageTable ==
    [v \in Range(AllVessels),
     c \in Range(AllCargoes) \cup {temp_cargo(x) : x \in Range(AllCargoes)},
     eco \in BOOLEAN, delay \in TableDelays, adj \in TableAdjustments |->
        calculate_voyage(FreightCalculator, v, c, eco, delay, adj)]

\* self.calculator.calculate_voyage(vessel, cargo, ...)
Voyage(vessel, cargo, use_eco_speed, delay, adj) ==
    LET Calculated(table, calculator) ==
            IF <<vessel, cargo, use_eco_speed, delay, adj>> \in DOMAIN table
            THEN table[vessel, cargo, use_eco_speed, delay, adj]
            ELSE calculate_voyage(calculator, vessel, cargo, use_eco_speed, delay, adj)
    IN  Calculated(VoyageTable, FreightCalculator)

\* port_delays is a sequence of <<key, days>> in dict order; the first key
\* that is a substring of the discharge port, or contains it, overrides
RECURSIVE PortDelayScan(_, _, _, _)
PortDelayScan(port_delays, k, port_name, extra_port_delay) ==
    IF k > Len(port_delays) THEN extra_port_delay
    ELSE IF \/ Contains(port_name, Upper(port_delays[k][1]))
            \/ Contains(Upper(port_delays[k][1]), port_name)
         THEN port_delays[k][2]
         ELSE PortDelayScan(port_delays, k + 1, port_name, extra_port_delay)

SpeedName(eco_speed) == IF eco_speed THEN "eco" ELSE "warranted"

\* variant: the row of a failed calculation is flagged feasible
VoyageRowKeepsFailed(vessel, cargo, eco_speed, extra_port_delay, bunker_adjustment, port_delays) ==
    LET Row(result) ==
            [ vessel |-> vessel.name, cargo |-> cargo.name,
              speed_type |-> SpeedName(eco_speed),
              can_make_laycan |-> IF result.ok THEN result.can_make_laycan ELSE TRUE,
              net_profit |-> IF result.ok THEN result.net_profit ELSE 0,
              tce |-> IF result.ok THEN result.tce ELSE 0,
              result |-> result ]
    IN  Row(Voyage(vessel, cargo, eco_speed,
                   PortDelayScan(port_delays, 1, Upper(cargo.discharge_port),
                                 extra_port_delay),
                   bunker_adjustment))

\* one row of the DataFrame; a failed calculation leaves can_make_laycan
\* False, NaN economics (never read) and no result
VoyageRow(vessel, cargo, eco_speed, extra_port_delay, bunker_adjustment, port_delays) ==
    LET Row(result) ==
            IF result.ok
            THEN [ vessel |-> vessel.name, cargo |-> cargo.name,
                   speed_type |-> SpeedName(eco_speed),
                   can_make_laycan |-> result.can_make_laycan,
                   net_profit |-> result.net_profit, tce |-> result.tce,
                   result |-> result ]
            ELSE [ vessel |-> vessel.name, cargo |-> cargo.name,
                   speed_type |-> SpeedName(eco_speed),
                   can_make_laycan |-> FALSE,
                   net_profit |-> 0, tce |-> 0,
                   result |-> result ]
    IN  Row(Voyage(vessel, cargo, eco_speed,
                   PortDelayScan(port_delays, 1, Upper(cargo.discharge_port),
                                 extra_port_delay),
                   bunker_adjustment))

speed_options(use_eco_speed, dual_speed_mode) ==
    IF dual_speed_mode THEN <<TRUE, FALSE>> ELSE <<use_eco_speed>>

calculate_all_voyages(vessels, cargoes, use_eco_speed, extra_port_delay, bunker_adjustment, port_delays, dual_speed_mode) ==
    LET speeds == speed_options(use_eco_speed, dual_speed_mode)
        nc     == Len(cargoes)
        ns     == Len(speeds)
    IN  [k \in 1..(Len(vessels) * nc * ns) |->
            VoyageRow(vessels[((k - 1) \div (nc * ns)) + 1],
                      cargoes[(((k - 1) \div ns) % nc) + 1],
                      speeds[((k - 1) % ns) + 1],
                      extra_port_delay, bunker_adjustment, port_delays)]

RowValue(row, maximize) == IF maximize = "profit" THEN row.net_profit ELSE row.tce

\* variant: per pair the first row holding the smallest value
IsGroupWorst(df, i, value_key) ==
    /\ \A j \in DOMAIN df :
          (df[j].vessel = df[i].vessel /\ df[j].cargo = df[i].cargo)
             => RowValue(df[j], value_key) >= RowValue(df[i], value_key)
    /\ \A j \in 1..(i - 1) :
          (df[j].vessel = df[i].vessel /\ df[j].cargo = df[i].cargo)
             => RowValue(df[j], value_key) > RowValue(df[i], value_key)

\* groupby(['vessel','cargo'])[value_key].idxmax(): per pair the first row
\* holding the largest value
IsGroupBest(df, i, value_key) ==
    /\ \A j \in DOMAIN df :
          (df[j].vessel = df[i].vessel /\ df[j].cargo = df[i].cargo)
             => RowValue(df[j], value_key) <= RowValue(df[i], value_key)
    /\ \A j \in 1..(i - 1) :
          (df[j].vessel = df[i].vessel /\ df[j].cargo = df[i].cargo)
             => RowValue(df[j], value_key) < RowValue(df[i], value_key)

KeyLess(a, b) ==
    \/ NameRank(a.vessel) < NameRank(b.vessel)
    \/ a.vessel = b.vessel /\ NameRank(a.cargo) < NameRank(b.cargo)

\* rows with distinct (vessel, cargo) keys, in sorted key order
SortByKey(rows) ==
    [k \in 1..Cardinality(rows) |->
        CHOOSE r \in rows : Cardinality({o \in rows : KeyLess(o, r)}) = k - 1]

\* valid_df.loc[groupby.idxmax()]: the best rows, in group (sorted key) order
BestPerPair(df, value_key) ==
    SortByKey({df[i] : i \in {k \in DOMAIN df : IsGroupBest(df, k, value_key)}})

\* valid_df.set_index(['vessel','cargo']).to_dict('index')
voyage_lookup(valid_df) ==
    [key \in {<<valid_df[i].vessel, valid_df[i].cargo>> : i \in DOMAIN valid_df} |->
        valid_df[CHOOSE i \in DOMAIN valid_df :
                    <<valid_df[i].vessel, valid_df[i].cargo>> = key]]


\* PortfolioResult; raised is TRUE when the call ended in an exception
PortfolioResult(assignments, unassigned_vessels, unassigned_cargoes, total_profit, total_tce, avg_tce) ==
    [ raised |-> FALSE, assignments |-> assignments,
      unassigned_vessels |-> unassigned_vessels,
      unassigned_cargoes |-> unassigned_cargoes,
      total_profit |-> total_profit, total_tce |-> total_tce,
      avg_tce |-> avg_tce ]

Raised(error) == [raised |-> TRUE, error |-> error]

AssignedVessels(assignments) == {assignments[i][1] : i \in DOMAIN assignments}

\* variant: no cargo counts as assigned
AssignedCargoesNone(assignments) == {}

AssignedCargoes(assignments) == {assignments[i][2] : i \in DOMAIN assignments}

\* variant: every name is reported unassigned
UnassignedKeepsAll(records, assigned) == Names(records)

\* [v.name for v in vessels if v.name not in assigned]
Unassigned(records, assigned) ==
    SelectSeq(Names(records), LAMBDA name : name \notin assigned)

AvgTce(total_tce, assignments) ==
    IF assignments # <<>> THEN total_tce \div Len(assignments) ELSE 0

\* the inner loop over zip(vessel_subset, cargo_perm)
RECURSIVE ZipAssignments(_, _, _, _, _, _)
ZipAssignments(valid_vessels, valid_cargoes, lookup, vessel_subset, cargo_perm, k) ==
    IF k > Len(vessel_subset)
    THEN [valid_assignment |-> TRUE, assignments |-> <<>>,
          total_profit |-> 0, total_tce |-> 0]
    ELSE LET key == <<valid_vessels[vessel_subset[k]], valid_cargoes[cargo_perm[k]]>>
         IN  IF key \in DOMAIN lookup
             THEN LET rest == ZipAssignments(valid_vessels, valid_cargoes, lookup,
                                             vessel_subset, cargo_perm, k + 1)
                      row  == lookup[key]
                  IN  [valid_assignment |-> rest.valid_assignment,
                       assignments |-> <<<<key[1], key[2], row.result>>>> \o rest.assignments,
                       total_profit |-> row.net_profit + rest.total_profit,
                       total_tce |-> row.tce + rest.total_tce]
             ELSE [valid_assignment |-> FALSE, assignments |-> <<>>,
                   total_profit |-> 0, total_tce |-> 0]

\* variant: only the first valid candidate is ever kept
ScoreBeatsFirstOnly(cand, best, maximize) == ~best.found

\* score > best_score; a 'tce' score is the average total_tce / len, compared
\* here by cross-multiplication; best_score starts at -inf
ScoreBeats(cand, best, maximize) ==
    IF ~best.found THEN TRUE
    ELSE IF maximize = "tce"
         THEN cand.total_tce * Len(best.assignments)
                 > best.total_tce * Len(cand.assignments)
         ELSE cand.total_profit > best.total_profit

AsBest(cand) ==
    [found |-> TRUE, assignments |-> cand.assignments,
     total_profit |-> cand.total_profit, total_tce |-> cand.total_tce]

NoBest == [found |-> FALSE, assignments |-> <<>>, total_profit |-> 0, total_tce |-> 0]

\* the loops over combinations(valid_vessels, num_assignments) and, inside,
\* permutations(valid_cargoes, num_assignments): candidate x pairs the
\* vessel subset ((x - 1) div |perms|) + 1 with the cargo permutation
\* ((x - 1) mod |perms|) + 1.  The candidates lo..hi are visited in order,
\* the first half before the second.
RECURSIVE BruteForceCandidates(_, _, _, _, _, _, _, _, _)
BruteForceCandidates(valid_vessels, valid_cargoes, lookup, maximize, combos, perms, lo, hi, best) ==
    LET Scored(cand) ==
            IF cand.valid_assignment /\ Len(cand.assignments) > 0
               /\ ScoreBeats(cand, best, maximize)
            THEN AsBest(cand)
            ELSE best
        Second(mid, left) ==
            IF left.found
            THEN BruteForceCandidates(valid_vessels, valid_cargoes, lookup, maximize,
                                      combos, perms, mid + 1, hi, left)
            ELSE BruteForceCandidates(valid_vessels, valid_cargoes, lookup, maximize,
                                      combos, perms, mid + 1, hi, NoBest)
        Halves(mid) ==
            Second(mid, BruteForceCandidates(valid_vessels, valid_cargoes, lookup,
                                             maximize, combos, perms, lo, mid, best))
    IN  IF lo > hi THEN best
        ELSE IF lo = hi
        THEN Scored(ZipAssignments(valid_vessels, valid_cargoes, lookup,
                                   combos[((lo - 1) \div Len(perms)) + 1],
                                   perms[((lo - 1) % Len(perms)) + 1], 1))
        ELSE Halves((lo + hi) \div 2)

\* for num_assignments in range(1, max_assignments + 1)
RECURSIVE BruteForceSizes(_, _, _, _, _, _)
BruteForceSizes(valid_vessels, valid_cargoes, lookup, maximize, num_assignments, best) ==
    LET Carried(after) ==
            IF after.found
            THEN BruteForceSizes(valid_vessels, valid_cargoes, lookup, maximize,
                                 num_assignments + 1, after)
            ELSE BruteForceSizes(valid_vessels, valid_cargoes, lookup, maximize,
                                 num_assignments + 1, NoBest)
        Search(combos, perms) ==
            Carried(BruteForceCandidates(valid_vessels, valid_cargoes, lookup,
                                           maximize, combos, perms,
                                           1, Len(combos) * Len(perms), best))
    IN  IF num_assignments > Min2(Len(valid_vessels), Len(valid_cargoes)) THEN best
        ELSE Search(combinations(Len(valid_vessels), num_assignments),
                    permutations(Len(valid_cargoes), num_assignments))

optimize_brute_force(vessels, cargoes, valid_vessels, valid_cargoes, lookup, maximize) ==
    LET Result(best) ==
            PortfolioResult(best.assignments,
                            Unassigned(vessels, AssignedVessels(best.assignments)),
                            Unassigned(cargoes, AssignedCargoes(best.assignments)),
                            best.total_profit, best.total_tce,
                            AvgTce(best.total_tce, best.assignments))
    IN  Result(BruteForceSizes(valid_vessels, valid_cargoes, lookup, maximize, 1, NoBest))


\* INVALID_PENALTY is 1e12 in the source; here any value above the largest
\* attainable sum of profits or TCEs has the same effect
INVALID_PENALTY == 200000000

\* cost_matrix[i, j]
CostEntry(valid_vessels, valid_cargoes, lookup, value_key, i, j) ==
    LET key == <<valid_vessels[i], valid_cargoes[j]>>
    IN  IF key \in DOMAIN lookup THEN -RowValue(lookup[key], value_key)
        ELSE INVALID_PENALTY

\* the complete matchings of the rectangular matrix, each as the sequence of
\* <<row, column>> pairs in row order that zip(row_ind, col_ind) yields
Matchings(n_vessels, n_cargoes) ==
    LET Tall(perms) ==
            [x \in DOMAIN perms |-> [i \in 1..n_vessels |-> <<i, perms[x][i]>>]]
        Wide(combos, perms) ==
            [x \in 1..(Len(combos) * Len(perms)) |->
                [k \in 1..n_cargoes |->
                    <<combos[((x - 1) \div Len(perms)) + 1][k],
                      perms[((x - 1) % Len(perms)) + 1][k]>>]]
    IN  IF n_vessels <= n_cargoes
        THEN Tall(permutations(n_cargoes, n_vessels))
        ELSE Wide(combinations(n_vessels, n_cargoes),
                  permutations(n_cargoes, n_cargoes))

MatchingCost(valid_vessels, valid_cargoes, lookup, value_key, m) ==
    SumSeq([k \in DOMAIN m |->
              CostEntry(valid_vessels, valid_cargoes, lookup, value_key,
                        m[k][1], m[k][2])])

RECURSIVE MinOfRange(_, _, _)
MinOfRange(s, lo, hi) ==
    IF lo = hi THEN s[lo]
    ELSE LET mid == (lo + hi) \div 2
         IN  Min2(MinOfRange(s, lo, mid), MinOfRange(s, mid + 1, hi))

\* linear_sum_assignment: the matchings of least total cost
linear_sum_assignment(valid_vessels, valid_cargoes, lookup, value_key) ==
    LET Least(all, cost, least) == {all[x] : x \in {y \in DOMAIN all : cost[y] = least}}
        Cheapest(all, cost) == Least(all, cost, MinOfRange(cost, 1, Len(cost)))
        WithCosts(all) ==
            Cheapest(all, [x \in DOMAIN all |->
                              MatchingCost(valid_vessels, valid_cargoes, lookup,
                                           value_key, all[x])])
    IN  WithCosts(Matchings(Len(valid_vessels), Len(valid_cargoes)))

\* the loop over zip(row_ind, col_ind) that filters the matching
RECURSIVE HungarianCollect(_, _, _, _, _, _)
HungarianCollect(valid_vessels, valid_cargoes, lookup, maximize, m, k) ==
    LET Kept(key, rest) ==
            IF CostEntry(valid_vessels, valid_cargoes, lookup, maximize,
                         m[k][1], m[k][2]) < INVALID_PENALTY
               /\ ~(lookup[key].net_profit <= 0 /\ maximize = "profit")
            THEN [assignments |->
                     <<<<key[1], key[2], lookup[key].result>>>> \o rest.assignments,
                  total_profit |-> lookup[key].net_profit + rest.total_profit,
                  total_tce |-> lookup[key].tce + rest.total_tce]
            ELSE rest
    IN  IF k > Len(m) THEN [assignments |-> <<>>, total_profit |-> 0, total_tce |-> 0]
        ELSE Kept(<<valid_vessels[m[k][1]], valid_cargoes[m[k][2]]>>,
                  HungarianCollect(valid_vessels, valid_cargoes, lookup,
                                   maximize, m, k + 1))

\* the results _optimize_hungarian can return: one per optimal matching
optimize_hungarian(vessels, cargoes, valid_vessels, valid_cargoes, lookup, maximize) ==
    LET Result(got) ==
            PortfolioResult(got.assignments,
                            Unassigned(vessels, AssignedVessels(got.assignments)),
                            Unassigned(cargoes, AssignedCargoes(got.assignments)),
                            got.total_profit, got.total_tce,
                            AvgTce(got.total_tce, got.assignments))
    IN  { Result(HungarianCollect(valid_vessels, valid_cargoes, lookup, maximize, m, 1)) :
          m \in linear_sum_assignment(valid_vessels, valid_cargoes, lookup, maximize) }

\* the rows that survive the laycan and profit filters
ValidRows(df, include_negative_profit) ==
    SelectSeq(df, LAMBDA row : /\ row.can_make_laycan
                               /\ (include_negative_profit \/ row.net_profit > 0))

\* the results optimize_assignments can return.  An empty vessel or cargo
\* list leaves a DataFrame without columns, and df['can_make_laycan'] raises.
optimize_assignments(vessels, cargoes, use_eco_speed, extra_port_delay, bunker_adjustment, maximize, include_negative_profit, port_delays, dual_speed_mode) ==
    LET Solved(valid_vessels, valid_cargoes, lookup) ==
            IF HAS_SCIPY /\ (Len(valid_vessels) > 5 \/ Len(valid_cargoes) > 5)
            THEN optimize_hungarian(vessels, cargoes, valid_vessels, valid_cargoes,
                                    lookup, maximize)
            ELSE {optimize_brute_force(vessels, cargoes, valid_vessels, valid_cargoes,
                                       lookup, maximize)}
        Indexed(valid_df) ==
            Solved(Unique([i \in DOMAIN valid_df |-> valid_df[i].vessel]),
                   Unique([i \in DOMAIN valid_df |-> valid_df[i].cargo]),
                   voyage_lookup(valid_df))
        Filtered(filtered) ==
            IF Len(filtered) = 0
            THEN {PortfolioResult(<<>>, Names(vessels), Names(cargoes), 0, 0, 0)}
            ELSE Indexed(IF dual_speed_mode THEN BestPerPair(filtered, maximize)
                                            ELSE filtered)
        OverFrame(df) ==
            IF df = <<>> THEN {Raised("KeyError: 'can_make_laycan'")}
            ELSE Filtered(ValidRows(df, include_negative_profit))
    IN  OverFrame(calculate_all_voyages(vessels, cargoes, use_eco_speed, extra_port_delay,
                                     bunker_adjustment, port_delays, dual_speed_mode))


(***************************************************************************)
(* Pairwise optimisation of a fleet against a cargo book                   *)
(***************************************************************************)
\* how many catalog vessels and cargoes a fleet and a book are drawn from
NumPairVessels == 8

NumPairCargoes == 4

\* the members of a catalog at the positions S, in catalog order
RECURSIVE PickFrom(_, _, _)
PickFrom(catalog, S, i) ==
    IF i > Len(catalog) THEN <<>>
    ELSE (IF i \in S THEN <<catalog[i]>> ELSE <<>>) \o PickFrom(catalog, S, i + 1)

Pick(catalog, S) == PickFrom(catalog, S, 1)

SpeedModes == {"eco", "warranted", "dual"}

InitPairwise ==
    /\ \E VS \in SUBSET (1..NumPairVessels), CS \in SUBSET (1..NumPairCargoes),
          mode \in SpeedModes, maximize \in {"profit", "tce"},
          include_negative_profit \in BOOLEAN :
          pw = [ vessels |-> Pick(AllVessels, VS), cargoes |-> Pick(AllCargoes, CS),
                 use_eco_speed |-> (mode # "warranted"),
                 dual_speed_mode |-> (mode = "dual"),
                 extra_port_delay |-> 0, bunker_adjustment |-> 100,
                 maximize |-> maximize,
                 include_negative_profit |-> include_negative_profit,
                 port_delays |-> <<>> ]
    /\ portfolio = Idle
    /\ pc = "optimize"
    /\ q_vessel = Idle /\ q_cargo = Idle /\ q_eco = FALSE
    /\ q_delay = 0 /\ q_adj = 100 /\ voyage = NoVoyage /\ rt = Idle
    /\ fp = Idle /\ plans = Idle /\ baseline = Idle /\ tp = Idle /\ dm = Idle /\ bk = Idle

OptimizeAssignments ==
    /\ pc = "optimize"
    /\ portfolio' \in optimize_assignments(pw.vessels, pw.cargoes, pw.use_eco_speed,
                                           pw.extra_port_delay, pw.bunker_adjustment,
                                           pw.maximize, pw.include_negative_profit,
                                           pw.port_delays, pw.dual_speed_mode)
    /\ pc' = "assigned"
    /\ UNCHANGED <<rt, bk, dm, tp, q_vessel, q_cargo, q_eco, q_delay, q_adj, voyage, pw,
                   fp, plans, baseline>>

NextPairwise == OptimizeAssignments

SpecPairwise == InitPairwise /\ [][NextPairwise]_vars

\* bunker price multipliers of the dual-speed comparison: today's prices and
\* a price collapse, under which the warranted speed pays
DualAdjustments == {100, 40}

\* optimize_assignments(..., dual_speed_mode=True, maximize='profit') on any
\* part of the fleet and of the cargo book
InitDualSpeed ==
    /\ \E VS \in SUBSET (1..NumPairVessels), CS \in SUBSET (1..NumPairCargoes),
          bunker_adjustment \in DualAdjustments,
          include_negative_profit \in BOOLEAN :
          pw = [ vessels |-> Pick(AllVessels, VS), cargoes |-> Pick(AllCargoes, CS),
                 use_eco_speed |-> TRUE, dual_speed_mode |-> TRUE,
                 extra_port_delay |-> 0, bunker_adjustment |-> bunker_adjustment,
                 maximize |-> "profit",
                 include_negative_profit |-> include_negative_profit,
                 port_delays |-> <<>> ]
    /\ portfolio = Idle
    /\ pc = "optimize"
    /\ q_vessel = Idle /\ q_cargo = Idle /\ q_eco = FALSE
    /\ q_delay = 0 /\ q_adj = 100 /\ voyage = NoVoyage /\ rt = Idle
    /\ fp = Idle /\ plans = Idle /\ baseline = Idle /\ tp = Idle /\ dm = Idle /\ bk = Idle

SpecDualSpeed == InitDualSpeed /\ [][NextPairwise]_vars


(***************************************************************************)
(* FullPortfolioOptimizer: joint optimisation over owned and hired vessels *)
(* and committed and optional cargoes                                      *)
(***************************************************************************)
FFA_MARKET_RATE == 18000

MIN_DAILY_PROFIT == 5000

\* dollars for a daily rate over a duration in ticks
RateOverDays(rate, ticks) == MulDiv(rate, ticks, TicksPerDay)

\* variant: the first entry applies, whatever port it names
PortDelayGetFirst(port_delays, k, port) ==
    IF port_delays = <<>> THEN 0 ELSE port_delays[1][2]

\* get_port_delay: port_delays.get(cargo.discharge_port, 0), an exact key
RECURSIVE PortDelayGet(_, _, _)
PortDelayGet(port_delays, k, port) ==
    IF k > Len(port_delays) THEN 0
    ELSE IF port_delays[k][1] = port THEN port_delays[k][2]
    ELSE PortDelayGet(port_delays, k + 1, port)

\* the hire Cargill can pay a market vessel and keep target_tce a day
RecommendedHire(result, target_tce) ==
    LET voyage_costs == result.total_bunker_cost + result.port_costs + result.misc_costs
        max_total_hire == result.net_freight - voyage_costs
                            - RateOverDays(target_tce, result.total_days)
    IN  IF result.total_days > 0 /\ max_total_hire > 0
        THEN MulDiv(max_total_hire, TicksPerDay, result.total_days)
        ELSE 0

\* the freight rate to bid for a market cargo, in cents per tonne
MinFreight(vessel, cargo, vessel_type, result, target_tce) ==
    LET voyage_costs == result.total_bunker_cost + result.port_costs + result.misc_costs
        required_net_freight ==
            IF vessel_type = "cargill"
            THEN voyage_costs + RateOverDays(vessel.hire_rate, result.total_days)
                   + RateOverDays(target_tce, result.total_days)
            ELSE voyage_costs + RateOverDays(target_tce, result.total_days)
        required_gross_freight ==
            MulDiv(required_net_freight, 10000, 10000 - cargo.commission)
    IN  IF result.cargo_quantity > 0
        THEN MulDiv(required_gross_freight, 100, result.cargo_quantity)
        ELSE 0

\* VoyageOption; a failed calculation gives an option without a result
calculate_option(vessel, cargo, vessel_type, cargo_type, use_eco_speed, target_tce, extra_port_delay) ==
    LET Failed(result) ==
            [ vessel |-> vessel.name, cargo |-> cargo.name, result |-> result,
              can_make_laycan |-> FALSE, tce |-> 0,
              net_profit |-> 0, voyage_days |-> 0,
              recommended_hire_rate |-> 0, min_freight_rate |-> 0,
              vessel_type |-> vessel_type, cargo_type |-> cargo_type ]
        Option(result, voyage_costs, recommended_hire) ==
            [ vessel |-> vessel.name, cargo |-> cargo.name, result |-> result,
              can_make_laycan |-> result.can_make_laycan, tce |-> result.tce,
              net_profit |->
                  IF vessel_type = "market"
                  THEN IF recommended_hire > 0
                       THEN result.net_freight - voyage_costs
                              - RateOverDays(recommended_hire, result.total_days)
                       ELSE result.net_freight - voyage_costs
                  ELSE result.net_profit,
              voyage_days |-> result.total_days,
              recommended_hire_rate |-> recommended_hire,
              min_freight_rate |->
                  IF cargo_type = "market"
                  THEN MinFreight(vessel, cargo, vessel_type, result, target_tce)
                  ELSE 0,
              vessel_type |-> vessel_type, cargo_type |-> cargo_type ]
        Calculated(result) ==
            IF result.ok
            THEN Option(result,
                        result.total_bunker_cost + result.port_costs + result.misc_costs,
                        IF vessel_type = "market"
                        THEN RecommendedHire(result, target_tce) ELSE 0)
            ELSE Failed(result)
    IN  Calculated(Voyage(vessel, temp_cargo(cargo), use_eco_speed,
                             extra_port_delay, 100))

\* _option_to_dict: the DataFrame row of an option
option_to_dict(option, speed_type) ==
    [ vessel |-> option.vessel, cargo |-> option.cargo,
      vessel_type |-> option.vessel_type, cargo_type |-> option.cargo_type,
      speed_type |-> speed_type, can_make_laycan |-> option.can_make_laycan,
      tce |-> option.tce, net_profit |-> option.net_profit,
      recommended_hire_rate |-> option.recommended_hire_rate,
      min_freight_rate |-> option.min_freight_rate,
      total_days |-> IF option.result.ok THEN option.result.total_days ELSE 0,
      net_freight |-> IF option.result.ok THEN option.result.net_freight ELSE 0,
      total_bunker_cost |-> IF option.result.ok THEN option.result.total_bunker_cost ELSE 0,
      port_costs |-> IF option.result.ok THEN option.result.port_costs ELSE 0,
      option |-> option ]

\* one of the three loops of calculate_all_options: the (vessel, cargo,
\* speed) iterations it makes, in order
OptionLoop(vessels, cargoes, vessel_type, cargo_type, ns) ==
    [k \in 1..(Len(vessels) * Len(cargoes) * ns) |->
        [ vessel |-> vessels[((k - 1) \div (Len(cargoes) * ns)) + 1],
          cargo  |-> cargoes[(((k - 1) \div ns) % Len(cargoes)) + 1],
          speed  |-> ((k - 1) % ns) + 1,
          vessel_type |-> vessel_type, cargo_type |-> cargo_type ]]

\* the rows the iterations of the three loops append
OptionRows(blocks, speeds, target_tce, port_delays) ==
    LET Row(block, cargo, eco_speed) ==
            option_to_dict(
                calculate_option(block.vessel, cargo, block.vessel_type,
                                 block.cargo_type, eco_speed, target_tce,
                                 PortDelayGet(port_delays, 1, cargo.discharge_port)),
                SpeedName(eco_speed))
    IN  [k \in DOMAIN blocks |->
            Row(blocks[k], blocks[k].cargo, speeds[blocks[k].speed])]

calculate_all_options(cargill_vessels, market_vessels, cargill_cargoes, market_cargoes, use_eco_speed, target_tce, dual_speed_mode, port_delays) ==
    LET Rows(speeds) ==
            OptionRows(
                OptionLoop(cargill_vessels, cargill_cargoes, "cargill", "cargill",
                           Len(speeds))
                  \o OptionLoop(cargill_vessels, market_cargoes, "cargill", "market",
                                Len(speeds))
                  \o OptionLoop(market_vessels, cargill_cargoes, "market", "cargill",
                                Len(speeds)),
                speeds, target_tce, port_delays)
    IN  Rows(speed_options(use_eco_speed, dual_speed_mode))


\* Step 2: the laycan-feasible rows; in dual-speed mode the most profitable
\* row of each pair, in group order
valid_options_of(all_options, dual_speed_mode) ==
    LET feasible == SelectSeq(all_options, LAMBDA row : row.can_make_laycan)
    IN  IF dual_speed_mode THEN BestPerPair(feasible, "profit") ELSE feasible

\* Step 3: one entry of a committed cargo's coverage list
CoverageEntry(row) ==
    [ vessel |-> row.vessel, vessel_type |-> row.vessel_type,
      profit |-> IF row.vessel_type = "cargill" THEN row.net_profit
                 ELSE row.net_freight
                        - (row.total_bunker_cost + row.port_costs + 15000)
                        - RateOverDays(FFA_MARKET_RATE, row.total_days),
      option |-> row.option, total_days |-> row.total_days ]

CoverageList(valid_options, cargo_name) ==
    LET cargo_options == SelectSeq(valid_options, LAMBDA row : row.cargo = cargo_name)
    IN  [k \in DOMAIN cargo_options |-> CoverageEntry(cargo_options[k])]

\* coverage_lists, in the order of cargill_cargoes
cargo_coverage(valid_options, cargill_cargoes) ==
    [i \in DOMAIN cargill_cargoes |-> CoverageList(valid_options, cargill_cargoes[i].name)]

uncoverable_cargoes(coverage_lists, cargill_cargoes) ==
    {cargill_cargoes[i].name : i \in {k \in DOMAIN cargill_cargoes : coverage_lists[k] = <<>>}}

\* whether a row of an owned vessel on an optional cargo clears the thresholds:
\* net_profit / total_days > MIN_DAILY_PROFIT and net_profit > 30 days of it
ClearsThreshold(row) ==
    /\ row.total_days > 0
    /\ row.net_profit > RateOverDays(MIN_DAILY_PROFIT, row.total_days)
    /\ row.net_profit > MIN_DAILY_PROFIT * 30

\* vessel_market_lookup[vessel][cargo]; a later row of a pair overwrites
vessel_market_lookup(valid_options, cargill_vessels) ==
    [vname \in Range(Names(cargill_vessels)) |->
        LET rows == SelectSeq(valid_options,
                              LAMBDA row : /\ row.vessel = vname
                                           /\ row.cargo_type = "market"
                                           /\ ClearsThreshold(row))
        IN  [cname \in {rows[k].cargo : k \in DOMAIN rows} |->
                rows[CHOOSE k \in DOMAIN rows :
                        /\ rows[k].cargo = cname
                        /\ \A j \in DOMAIN rows : rows[j].cargo = cname => j <= k]]]

\* the inner loop over zip(vessel_idx, cargo_idx)
RECURSIVE ZipMarket(_, _, _, _, _, _)
ZipMarket(vessel_names, all_market_cargoes, lookup, vessel_idx, cargo_idx, k) ==
    IF k > Len(vessel_idx)
    THEN [valid |-> TRUE, total_profit |-> 0, assignments |-> <<>>]
    ELSE LET vname == vessel_names[vessel_idx[k]]
             cname == all_market_cargoes[cargo_idx[k]]
         IN  IF cname \in DOMAIN lookup[vname]
             THEN LET rest == ZipMarket(vessel_names, all_market_cargoes, lookup,
                                        vessel_idx, cargo_idx, k + 1)
                  IN  [valid |-> rest.valid,
                       total_profit |-> lookup[vname][cname].net_profit + rest.total_profit,
                       assignments |-> <<lookup[vname][cname]>> \o rest.assignments]
             ELSE [valid |-> FALSE, total_profit |-> 0, assignments |-> <<>>]

NoMarket == [best_profit |-> 0, best_assignments |-> <<>>]

\* the loops over combinations(range(n_vessels), k) and permutations(
\* range(n_cargoes), k), candidate by candidate as in the pairwise search
RECURSIVE MarketCandidates(_, _, _, _, _, _, _, _)
MarketCandidates(vessel_names, all_market_cargoes, lookup, combos, perms, lo, hi, best) ==
    LET Scored(cand) ==
            IF cand.valid /\ cand.total_profit > best.best_profit
            THEN [best_profit |-> cand.total_profit,
                  best_assignments |-> cand.assignments]
            ELSE best
        Second(mid, left) ==
            IF left.best_profit > 0
            THEN MarketCandidates(vessel_names, all_market_cargoes, lookup,
                                  combos, perms, mid + 1, hi, left)
            ELSE MarketCandidates(vessel_names, all_market_cargoes, lookup,
                                  combos, perms, mid + 1, hi, NoMarket)
        Halves(mid) ==
            Second(mid, MarketCandidates(vessel_names, all_market_cargoes, lookup,
                                         combos, perms, lo, mid, best))
    IN  IF lo > hi THEN best
        ELSE IF lo = hi
        THEN Scored(ZipMarket(vessel_names, all_market_cargoes, lookup,
                              combos[((lo - 1) \div Len(perms)) + 1],
                              perms[((lo - 1) % Len(perms)) + 1], 1))
        ELSE Halves((lo + hi) \div 2)

\* for k in range(min(n_vessels, n_cargoes) + 1)
RECURSIVE MarketSizes(_, _, _, _, _)
MarketSizes(vessel_names, all_market_cargoes, lookup, k, best) ==
    LET Carried(after) ==
            IF after.best_profit > 0
            THEN MarketSizes(vessel_names, all_market_cargoes, lookup, k + 1, after)
            ELSE MarketSizes(vessel_names, all_market_cargoes, lookup, k + 1, NoMarket)
        Search(combos, perms) ==
            Carried(MarketCandidates(vessel_names, all_market_cargoes, lookup,
                                     combos, perms, 1, Len(combos) * Len(perms), best))
    IN  IF k > Min2(Len(vessel_names), Len(all_market_cargoes)) THEN best
        ELSE Search(combinations(Len(vessel_names), k),
                    permutations(Len(all_market_cargoes), k))

\* _exhaustive_market_assignments.  list(set(...)) yields the reachable
\* cargo names in the iteration order of a str set, which is set_order
exhaustive_market_assignments(remaining_vessels, lookup, set_order) ==
    LET Reached(vessel_names, reachable) ==
            MarketSizes(vessel_names,
                        SelectSeq(set_order, LAMBDA cname : cname \in reachable),
                        lookup, 0, NoMarket)
        Named(vessel_names) ==
            Reached(vessel_names,
                    UNION {DOMAIN lookup[vname] : vname \in Range(vessel_names)})
    IN  IF remaining_vessels = <<>> THEN NoMarket
        ELSE Named(Names(remaining_vessels))


\* heapq on tuples (total_profit, combo_id, ...): combo_id breaks ties
HeapItemLess(a, b) ==
    \/ a.total_profit < b.total_profit
    \/ a.total_profit = b.total_profit /\ a.combo_id < b.combo_id

\* heapq._siftdown(heap, startpos, pos) with newitem held aside
RECURSIVE SiftDown(_, _, _, _)
SiftDown(heap, startpos, pos, newitem) ==
    IF pos > startpos /\ HeapItemLess(newitem, heap[((pos - 1) \div 2) + 1])
    THEN SiftDown([heap EXCEPT ![pos + 1] = heap[((pos - 1) \div 2) + 1]],
                  startpos, (pos - 1) \div 2, newitem)
    ELSE [heap EXCEPT ![pos + 1] = newitem]

\* heapq._siftup(heap, pos): bubble the smaller child up to a leaf, then
\* sift the new item down from there
RECURSIVE SiftUp(_, _, _, _)
SiftUp(heap, startpos, pos, newitem) ==
    LET childpos == 2 * pos + 1
        rightpos == childpos + 1
        pick == IF rightpos < Len(heap)
                   /\ ~HeapItemLess(heap[childpos + 1], heap[rightpos + 1])
                THEN rightpos ELSE childpos
    IN  IF childpos < Len(heap)
        THEN SiftUp([heap EXCEPT ![pos + 1] = heap[pick + 1]], startpos, pick, newitem)
        ELSE SiftDown(heap, startpos, pos, newitem)

heappush(heap, item) == SiftDown(Append(heap, item), 0, Len(heap), item)

heapreplace(heap, item) == SiftUp([heap EXCEPT ![1] = item], 0, 0, item)

\* itertools.product over lists of the given lengths: index tuples, the
\* last position varying fastest
RECURSIVE product(_)
product(lens) ==
    IF lens = <<>> THEN << <<>> >>
    ELSE LET rest == product(Tail(lens))
         IN  [x \in 1..(Head(lens) * Len(rest)) |->
                <<((x - 1) \div Len(rest)) + 1>> \o rest[((x - 1) % Len(rest)) + 1]]

\* variant: a vessel covering two cargoes is not noticed
VesselUsedTwiceUnnoticed(vessels_used) == FALSE

\* len(vessels_used) != len(set(vessels_used))
VesselUsedTwice(vessels_used) == Len(vessels_used) # Cardinality(Range(vessels_used))

\* variant: a full heap never admits a later combination
BeatsWorstKeptNever(item, top_combinations) == FALSE

\* total_profit > top_combinations[0][0]
BeatsWorstKept(item, top_combinations) ==
    item.total_profit > top_combinations[1].total_profit

\* Steps 4 and 5: the loop over product(*coverage_lists) that keeps the
\* top_n combinations in a min-heap.  kept holds combo_id and the heap; the
\* combinations lo..hi are visited in order, the first half before the second.
RECURSIVE CombinationLoop(_, _, _, _, _, _, _, _, _)
CombinationLoop(coverage_lists, cargill_vessels, lookup, set_order, top_n, combos, lo, hi, kept) ==
    LET Pushed(item) ==
            IF Len(kept.top_combinations) < top_n
            THEN [combo_id |-> kept.combo_id + 1,
                  top_combinations |-> heappush(kept.top_combinations, item)]
            ELSE IF BeatsWorstKept(item, kept.top_combinations)
            THEN [combo_id |-> kept.combo_id + 1,
                  top_combinations |-> heapreplace(kept.top_combinations, item)]
            ELSE [combo_id |-> kept.combo_id + 1,
                  top_combinations |-> kept.top_combinations]
        Extended(coverage_combo, coverage_profit, market) ==
            Pushed([ total_profit |-> coverage_profit + market.best_profit,
                     combo_id |-> kept.combo_id + 1,
                     coverage_combo |-> coverage_combo,
                     market_assignments |-> market.best_assignments ])
        Checked(coverage_combo, vessels_used) ==
            IF VesselUsedTwice(vessels_used) THEN kept
            ELSE Extended(coverage_combo,
                          SumSeq([k \in DOMAIN coverage_combo |->
                                    coverage_combo[k].profit]),
                          exhaustive_market_assignments(
                              SelectSeq(cargill_vessels,
                                        LAMBDA v : v.name \notin Range(vessels_used)),
                              lookup, set_order))
        Visited(coverage_combo) ==
            Checked(coverage_combo,
                    [k \in DOMAIN coverage_combo |-> coverage_combo[k].vessel])
        Second(mid, left) ==
            IF left.combo_id = kept.combo_id
            THEN CombinationLoop(coverage_lists, cargill_vessels, lookup, set_order,
                                 top_n, combos, mid + 1, hi, kept)
            ELSE CombinationLoop(coverage_lists, cargill_vessels, lookup, set_order,
                                 top_n, combos, mid + 1, hi, left)
        Halves(mid) ==
            Second(mid, CombinationLoop(coverage_lists, cargill_vessels, lookup,
                                        set_order, top_n, combos, lo, mid, kept))
    IN  IF lo > hi THEN kept
        ELSE IF lo = hi
        THEN Visited([k \in DOMAIN coverage_lists |-> coverage_lists[k][combos[lo][k]]])
        ELSE Halves((lo + hi) \div 2)

\* variant: the combinations stay in heap order
SortByProfitUnsorted(items) == items

\* list.sort(key=lambda x: -x[0]): stable, largest total_profit first
RECURSIVE SortByProfit(_)
SortByProfit(items) ==
    IF items = <<>> THEN <<>>
    ELSE LET k == CHOOSE a \in DOMAIN items :
                     /\ \A b \in DOMAIN items : items[b].total_profit <= items[a].total_profit
                     /\ \A b \in 1..(a - 1) : items[b].total_profit < items[a].total_profit
         IN  <<items[k]>> \o SortByProfit(SubSeq(items, 1, k - 1)
                                            \o SubSeq(items, k + 1, Len(items)))


FullPortfolioResult(cargill_assignments, market_assignments, unassigned_vessels, unassigned_cargoes, total_profit, total_tce, avg_tce, hire_offers, freight_bids) ==
    [ cargill_vessel_assignments |-> cargill_assignments,
      market_vessel_assignments |-> market_assignments,
      unassigned_cargill_vessels |-> unassigned_vessels,
      unassigned_cargill_cargoes |-> unassigned_cargoes,
      total_profit |-> total_profit, total_tce |-> total_tce, avg_tce |-> avg_tce,
      market_vessel_hire_offers |-> hire_offers,
      market_cargo_freight_bids |-> freight_bids ]

\* sum(opt.tce for _, _, opt in assignments if opt and opt.tce)
TceOf(assignments) == SumSeq([k \in DOMAIN assignments |-> assignments[k][3].tce])

\* hire_offers["<vessel> for <cargo>"]: the last valid row of the pair
hire_offers_of(valid_options) ==
    LET rows == SelectSeq(valid_options,
                          LAMBDA row : /\ row.vessel_type = "market"
                                       /\ row.cargo_type = "cargill"
                                       /\ row.recommended_hire_rate > 0)
    IN  [key \in {<<rows[k].vessel, rows[k].cargo>> : k \in DOMAIN rows} |->
            rows[CHOOSE k \in DOMAIN rows :
                    /\ <<rows[k].vessel, rows[k].cargo>> = key
                    /\ \A j \in DOMAIN rows :
                          <<rows[j].vessel, rows[j].cargo>> = key => j <= k
                ].recommended_hire_rate]

\* freight_bids[cargo]: the lowest positive min_freight_rate of the cargo
freight_bids_of(valid_options) ==
    LET rows == SelectSeq(valid_options,
                          LAMBDA row : /\ row.vessel_type = "cargill"
                                       /\ row.cargo_type = "market"
                                       /\ row.min_freight_rate > 0)
    IN  [cargo \in {rows[k].cargo : k \in DOMAIN rows} |->
            CHOOSE rate \in {rows[k].min_freight_rate : k \in DOMAIN rows} :
                /\ \E k \in DOMAIN rows :
                      rows[k].cargo = cargo /\ rows[k].min_freight_rate = rate
                /\ \A k \in DOMAIN rows :
                      rows[k].cargo = cargo => rate <= rows[k].min_freight_rate]

\* Step 6: the plan built from one kept combination
BuildResult(item, cargill_vessels, cargill_cargoes, hire_offers, freight_bids) ==
    LET combo == item.coverage_combo
        triple(i) == <<combo[i].vessel, cargill_cargoes[i].name, combo[i].option>>
        covered_by(vessel_type) ==
            LET idx == SelectSeq([i \in DOMAIN combo |-> i],
                                 LAMBDA i : (combo[i].vessel_type = "cargill")
                                              = (vessel_type = "cargill"))
            IN  [k \in DOMAIN idx |-> triple(idx[k])]
        extra == [k \in DOMAIN item.market_assignments |->
                    <<item.market_assignments[k].vessel,
                      item.market_assignments[k].cargo,
                      item.market_assignments[k].option>>]
        Totalled(cargill_assignments, market_assignments, total_tce, n_assignments) ==
            FullPortfolioResult(
                cargill_assignments, market_assignments,
                Unassigned(cargill_vessels,
                           AssignedVessels(cargill_assignments \o market_assignments)),
                Unassigned(cargill_cargoes,
                           AssignedCargoes(cargill_assignments \o market_assignments)),
                item.total_profit, total_tce,
                IF n_assignments > 0 THEN total_tce \div n_assignments ELSE 0,
                hire_offers, freight_bids)
        Split(cargill_assignments, market_assignments) ==
            Totalled(cargill_assignments, market_assignments,
                     TceOf(cargill_assignments) + TceOf(market_assignments),
                     Len(cargill_assignments) + Len(market_assignments))
    IN  Split(covered_by("cargill") \o extra, covered_by("market"))

\* the greedy loop of _build_fallback_result: the assignment lists it can
\* produce.  sort_values('net_profit', ascending=False) is not a stable
\* sort, so any row of the largest net_profit can come first.
\* variant: the least profitable row comes first
IsWorstRow(row, cargo_options) ==
    \A other \in cargo_options : other.net_profit >= row.net_profit

\* the rows sort_values('net_profit', ascending=False) can put first
IsBestRow(row, cargo_options) ==
    \A other \in cargo_options : other.net_profit <= row.net_profit

RECURSIVE FallbackGreedy(_, _, _, _, _)
FallbackGreedy(valid_options, cargill_cargoes, uncoverable, i, assignments) ==
    IF i > Len(cargill_cargoes) THEN {assignments}
    ELSE LET cargo_options ==
                {valid_options[k] : k \in
                    {j \in DOMAIN valid_options :
                        /\ valid_options[j].cargo = cargill_cargoes[i].name
                        /\ valid_options[j].vessel \notin AssignedVessels(assignments)}}
             best_rows == {row \in cargo_options : IsBestRow(row, cargo_options)}
         IN  IF cargill_cargoes[i].name \in uncoverable \/ cargo_options = {}
             THEN FallbackGreedy(valid_options, cargill_cargoes, uncoverable, i + 1,
                                 assignments)
             ELSE UNION {FallbackGreedy(valid_options, cargill_cargoes, uncoverable, i + 1,
                                        Append(assignments,
                                               <<best.vessel, best.cargo, best.option,
                                                 best.vessel_type>>)) :
                         best \in best_rows}

build_fallback_result(cargill_vessels, cargill_cargoes, valid_options, uncoverable) ==
    { LET of_type(vessel_type) ==
              LET kept == SelectSeq(assignments, LAMBDA a : a[4] = vessel_type)
              IN  [k \in DOMAIN kept |-> <<kept[k][1], kept[k][2], kept[k][3]>>]
          total_tce == TceOf(assignments)
      IN  FullPortfolioResult(
              of_type("cargill"), of_type("market"),
              Unassigned(cargill_vessels, AssignedVessels(assignments)),
              Unassigned(cargill_cargoes, AssignedCargoes(assignments)),
              SumSeq([k \in DOMAIN assignments |-> assignments[k][3].net_profit]),
              total_tce,
              IF assignments # <<>> THEN total_tce \div Len(assignments) ELSE 0,
              <<>>, <<>>) :
      assignments \in FallbackGreedy(valid_options, cargill_cargoes, uncoverable, 1, <<>>) }


\* the orders in which a set of str can be iterated
SetOrders(names) ==
    {[i \in DOMAIN names |-> names[p[i]]] :
        p \in Range(permutations(Len(names), Len(names)))}

\* the plans optimize_full_portfolio returns under one str-set iteration order
\* and each way the fallback can break its ties.  Without a single costed
\* pair the DataFrame has no columns and all_options['can_make_laycan'] raises.
optimize_full_portfolio_under(cargill_vessels, market_vessels, cargill_cargoes, market_cargoes, use_eco_speed, target_tce, dual_speed_mode, top_n, port_delays, set_order) ==
    LET Fallback(valid_options, uncoverable) ==
            {[raised |-> FALSE, results |-> <<r>>] :
                r \in build_fallback_result(cargill_vessels, cargill_cargoes,
                                            valid_options, uncoverable)}
        Built(valid_options, sorted) ==
            {[raised |-> FALSE,
              results |-> [k \in DOMAIN sorted |->
                             BuildResult(sorted[k], cargill_vessels, cargill_cargoes,
                                         hire_offers_of(valid_options),
                                         freight_bids_of(valid_options))]]}
        Ranked(valid_options, top_combinations) ==
            IF top_combinations = <<>>
            THEN Fallback(valid_options, {})
            ELSE Built(valid_options, SortByProfit(top_combinations))
        Searched(valid_options, coverage_lists, combos) ==
            Ranked(valid_options,
                   CombinationLoop(coverage_lists, cargill_vessels,
                                   vessel_market_lookup(valid_options, cargill_vessels),
                                   set_order, top_n, combos, 1, Len(combos),
                                   [combo_id |-> 0, top_combinations |-> <<>>]
                                  ).top_combinations)
        Covered(valid_options, coverage_lists, uncoverable) ==
            IF uncoverable # {}
            THEN Fallback(valid_options, uncoverable)
            ELSE Searched(valid_options, coverage_lists,
                          product([k \in DOMAIN coverage_lists |->
                                     Len(coverage_lists[k])]))
        Listed(valid_options, coverage_lists) ==
            Covered(valid_options, coverage_lists,
                    uncoverable_cargoes(coverage_lists, cargill_cargoes))
        Valid(valid_options) ==
            Listed(valid_options, cargo_coverage(valid_options, cargill_cargoes))
        Calculated(all_options) ==
            IF all_options = <<>> THEN {Raised("KeyError: 'can_make_laycan'")}
            ELSE Valid(valid_options_of(all_options, dual_speed_mode))
    IN  Calculated(calculate_all_options(cargill_vessels, market_vessels,
                                         cargill_cargoes, market_cargoes,
                                         use_eco_speed, target_tce,
                                         dual_speed_mode, port_delays))

optimize_full_portfolio(cargill_vessels, market_vessels, cargill_cargoes, market_cargoes, use_eco_speed, target_tce, dual_speed_mode, top_n, port_delays) ==
    UNION {optimize_full_portfolio_under(cargill_vessels, market_vessels,
                                         cargill_cargoes, market_cargoes,
                                         use_eco_speed, target_tce, dual_speed_mode,
                                         top_n, port_delays, set_order) :
           set_order \in SetOrders(Names(market_cargoes))}

(***************************************************************************)
(* Joint optimisation of a portfolio, with the owned-fleet pairwise        *)
(* optimum that verify_logic.py compares it to                             *)
(***************************************************************************)
NumOwned == 3

NumMarket == 2

NumCommitted == 3

NumOptional == 2

MaxTopN == 2

InitJoint ==
    /\ \E CV \in SUBSET (1..NumOwned), MV \in SUBSET (1..NumMarket),
          CC \in SUBSET (1..NumCommitted), MC \in SUBSET (1..NumOptional),
          mode \in SpeedModes, top_n \in 1..MaxTopN :
          fp = [ cargill_vessels |-> Pick(OwnedCatalog, CV),
                 market_vessels |-> Pick(MarketCatalog, MV),
                 cargill_cargoes |-> Pick(CommittedCatalog, CC),
                 market_cargoes |-> Pick(OptionalCatalog, MC),
                 use_eco_speed |-> (mode # "warranted"),
                 dual_speed_mode |-> (mode = "dual"),
                 target_tce |-> 18000, top_n |-> top_n, port_delays |-> <<>> ]
    /\ plans = Idle /\ baseline = Idle
    /\ pc = "plan"
    /\ q_vessel = Idle /\ q_cargo = Idle /\ q_eco = FALSE
    /\ q_delay = 0 /\ q_adj = 100 /\ voyage = NoVoyage /\ rt = Idle
    /\ pw = Idle /\ portfolio = Idle /\ tp = Idle /\ dm = Idle /\ bk = Idle

OptimizeFullPortfolio ==
    /\ pc = "plan"
    /\ plans = Idle
    /\ plans' \in optimize_full_portfolio(fp.cargill_vessels, fp.market_vessels,
                                          fp.cargill_cargoes, fp.market_cargoes,
                                          fp.use_eco_speed, fp.target_tce,
                                          fp.dual_speed_mode, fp.top_n, fp.port_delays)
    /\ UNCHANGED <<rt, bk, dm, tp, q_vessel, q_cargo, q_eco, q_delay, q_adj, voyage, pc, pw, portfolio,
                   fp, baseline>>

\* the Cargill-only optimum: owned vessels against committed cargoes
OptimizeOwnedOnly ==
    /\ pc = "plan"
    /\ baseline = Idle
    /\ baseline' \in optimize_assignments(fp.cargill_vessels, fp.cargill_cargoes,
                                          fp.use_eco_speed, 0, 100, "profit", FALSE,
                                          <<>>, fp.dual_speed_mode)
    /\ UNCHANGED <<rt, bk, dm, tp, q_vessel, q_cargo, q_eco, q_delay, q_adj, voyage, pc, pw, portfolio,
                   fp, plans>>

NextJoint == OptimizeFullPortfolio \/ OptimizeOwnedOnly

SpecJoint == InitJoint /\ [][NextJoint]_vars


(***************************************************************************)
(* ScenarioAnalyzer.find_tipping_points: the forward sweeps over the       *)
(* bunker price and over the port delay at the China discharge ports       *)
(***************************************************************************)
CHINA_DISCHARGE_PORTS ==
    <<"QINGDAO", "RIZHAO", "CAOFEIDIAN", "FANGCHENG", "LIANYUNGANG", "SHANGHAI",
      "TIANJIN", "DALIAN">>

\* the whole percentages p up to 100 for which, in binary floating point,
\* (((1.0 + p / 100) + 0.01) - 1.0) / 0.01 lies above p + 1
ArangeRoundsUp ==
    (0..12) \cup {14} \cup (27..35) \cup {37, 39, 55, 56, 58, 60, 62, 64, 66, 68,
                                         85, 87, 89, 91, 93}

\* len(np.arange(1.0, max_multiplier + 0.01, 0.01)), which numpy computes as
\* ceil((stop - start) / step)
arange_len(max_bunker_increase_pct) ==
    max_bunker_increase_pct + 1
      + (IF max_bunker_increase_pct \in ArangeRoundsUp THEN 1 ELSE 0)

\* frozenset((a[0], a[1]) for a in portfolio.assignments)
AssignmentSet(portfolio_result) ==
    { <<portfolio_result.assignments[i][1], portfolio_result.assignments[i][2]>> :
        i \in DOMAIN portfolio_result.assignments }

\* list(a_set): the members in each order a set can be iterated in
list_of_set(S) == { s \in [1..Cardinality(S) -> S] : Range(s) = S }

\* {port: delay for port in CHINA_DISCHARGE_PORTS}; every key carries the
\* same delay, so one key order stands for all
china_port_delays(delay) ==
    [i \in DOMAIN CHINA_DISCHARGE_PORTS |->
        <<CHINA_DISCHARGE_PORTS[i], delay * TicksPerDay>>]

NoTippingPoint == [found |-> FALSE]

\* tipping_points['bunker'], tipping_points['port_delay']
TippingPoint(at, old_assignments, new_assignments, profit_before, profit_after) ==
    [ found |-> TRUE, at |-> at,
      old_assignments |-> old_assignments, new_assignments |-> new_assignments,
      profit_before |-> profit_before, profit_after |-> profit_after ]

\* what one iteration of a sweep observed
Swept(at, portfolio_result) ==
    [ at |-> at, assignments |-> AssignmentSet(portfolio_result),
      total_profit |-> portfolio_result.total_profit ]

\* self.optimizer.optimize_assignments(vessels, cargoes, bunker_adjustment=..,
\* port_delays=..): every other argument has its default
Reoptimize(vessels, cargoes, bunker_adjustment, port_delays) ==
    optimize_assignments(vessels, cargoes, TRUE, 0, bunker_adjustment, "profit",
                         FALSE, port_delays, FALSE)

\* how many catalog vessels and cargoes the analysed fleet and book are drawn from
NumTipVessels == 3

NumTipCargoes == 3

\* max_bunker_increase_pct (the default is 100) and max_port_delay_days (the
\* default is 20) of the analysed calls
MaxBunkerChoices == {0, 39, 40, 100}

MaxDelayChoices == {0, 9, 10, 20}

InitTipping ==
    /\ \E VS \in SUBSET (1..NumTipVessels), CS \in SUBSET (1..NumTipCargoes),
          max_bunker_increase_pct \in MaxBunkerChoices,
          max_port_delay_days \in MaxDelayChoices :
          tp = [ vessels |-> Pick(AllVessels, VS), cargoes |-> Pick(AllCargoes, CS),
                 max_bunker_increase_pct |-> max_bunker_increase_pct,
                 max_port_delay_days |-> max_port_delay_days,
                 line |-> "baseline", baseline |-> Idle, step |-> 0,
                 prev_profit |-> 0,
                 bunker |-> NoTippingPoint, port_delay |-> NoTippingPoint,
                 bunker_sweep |-> <<>>, delay_sweep |-> <<>> ]
    /\ pc = "analyze" /\ dm = Idle /\ bk = Idle
    /\ q_vessel = Idle /\ q_cargo = Idle /\ q_eco = FALSE
    /\ q_delay = 0 /\ q_adj = 100 /\ voyage = NoVoyage /\ rt = Idle
    /\ pw = Idle /\ portfolio = Idle
    /\ fp = Idle /\ plans = Idle /\ baseline = Idle

\* lines 1400-1403: the baseline; a raise of the optimizer leaves the method
FindBaseline ==
    /\ pc = "analyze" /\ tp.line = "baseline"
    /\ \E result \in Reoptimize(tp.vessels, tp.cargoes, 100, <<>>) :
          tp' = IF result.raised
                THEN [tp EXCEPT !.line = "raised", !.baseline = result]
                ELSE [tp EXCEPT !.line = "bunker", !.baseline = result,
                                !.prev_profit = result.total_profit, !.step = 0]
    /\ UNCHANGED <<rt, bk, dm, q_vessel, q_cargo, q_eco, q_delay, q_adj, voyage, pc, pw,
                   portfolio, fp, plans, baseline>>

\* one iteration of the loop over np.arange(1.0, max_multiplier + 0.01, 0.01)
BunkerStep ==
    /\ pc = "analyze" /\ tp.line = "bunker"
    /\ tp.step < arange_len(tp.max_bunker_increase_pct)
    /\ \E result \in Reoptimize(tp.vessels, tp.cargoes, 100 + tp.step, <<>>) :
          IF AssignmentSet(result) # AssignmentSet(tp.baseline)
          THEN \E old \in list_of_set(AssignmentSet(tp.baseline)),
                  new \in list_of_set(AssignmentSet(result)) :
                  tp' = [tp EXCEPT
                           !.bunker = TippingPoint(100 + tp.step, old, new,
                                                   tp.prev_profit, result.total_profit),
                           !.bunker_sweep = Append(@, Swept(100 + tp.step, result)),
                           !.line = "delay", !.step = 1,
                           !.prev_profit = tp.baseline.total_profit]
          ELSE tp' = [tp EXCEPT
                        !.bunker_sweep = Append(@, Swept(100 + tp.step, result)),
                        !.prev_profit = result.total_profit,
                        !.step = @ + 1]
    /\ UNCHANGED <<rt, bk, dm, q_vessel, q_cargo, q_eco, q_delay, q_adj, voyage, pc, pw,
                   portfolio, fp, plans, baseline>>

\* the bunker loop runs out: tipping_points['bunker'] stays None
BunkerSweepEnds ==
    /\ pc = "analyze" /\ tp.line = "bunker"
    /\ tp.step >= arange_len(tp.max_bunker_increase_pct)
    /\ tp' = [tp EXCEPT !.line = "delay", !.step = 1,
                        !.prev_profit = tp.baseline.total_profit]
    /\ UNCHANGED <<rt, bk, dm, q_vessel, q_cargo, q_eco, q_delay, q_adj, voyage, pc, pw,
                   portfolio, fp, plans, baseline>>

\* one iteration of the loop over range(1, max_port_delay_days + 1); a
\* change of the assignment set ends the method
DelayStep ==
    /\ pc = "analyze" /\ tp.line = "delay"
    /\ tp.step <= tp.max_port_delay_days
    /\ \E result \in Reoptimize(tp.vessels, tp.cargoes, 100, china_port_delays(tp.step)) :
          IF AssignmentSet(result) # AssignmentSet(tp.baseline)
          THEN \E old \in list_of_set(AssignmentSet(tp.baseline)),
                  new \in list_of_set(AssignmentSet(result)) :
                  tp' = [tp EXCEPT
                           !.port_delay = TippingPoint(tp.step, old, new,
                                                       tp.prev_profit, result.total_profit),
                           !.delay_sweep = Append(@, Swept(tp.step, result)),
                           !.line = "return"]
          ELSE tp' = [tp EXCEPT
                        !.delay_sweep = Append(@, Swept(tp.step, result)),
                        !.prev_profit = result.total_profit,
                        !.step = @ + 1]
    /\ UNCHANGED <<rt, bk, dm, q_vessel, q_cargo, q_eco, q_delay, q_adj, voyage, pc, pw,
                   portfolio, fp, plans, baseline>>

\* the delay loop runs out: tipping_points['port_delay'] stays None
DelaySweepEnds ==
    /\ pc = "analyze" /\ tp.line = "delay"
    /\ tp.step > tp.max_port_delay_days
    /\ tp' = [tp EXCEPT !.line = "return"]
    /\ UNCHANGED <<rt, bk, dm, q_vessel, q_cargo, q_eco, q_delay, q_adj, voyage, pc, pw,
                   portfolio, fp, plans, baseline>>

NextTipping ==
    FindBaseline \/ BunkerStep \/ BunkerSweepEnds \/ DelayStep \/ DelaySweepEnds

SpecTipping == InitTipping /\ [][NextTipping]_vars


(***************************************************************************)
(* Both optimizers under per-port delays (port_delays)                     *)
(***************************************************************************)
\* the market cargo BHP Iron Ore (Australia-S.Korea) of create_market_cargoes()
GwangyangOre ==
    MkCargo("BHP Iron Ore Korea", 165000, 10, 36, 42, 0, "PORT HEDLAND", 80000, 12,
            "GWANGYANG", 30000, 24, 230000, 0, 375, FALSE, 0)

\* the ports that a port_delays dictionary names, and the delays it gives
DelayPorts == {"QINGDAO", "DAGANG (QINGDAO)", "GWANGYANG", "SHANGHAI"}

DelayValues == {2000, 5000}

\* port_delays dictionaries of at most two entries, in insertion order
DelayDicts ==
    {<<>>}
      \cup { << <<p, d>> >> : p \in DelayPorts, d \in DelayValues }
      \cup { dict \in { << <<p, d>>, <<q, e>> >> :
                          p \in DelayPorts, d \in DelayValues,
                          q \in DelayPorts, e \in DelayValues } :
               dict[1][1] # dict[2][1] }

\* how many catalog vessels and cargoes the delayed scenarios draw from
NumDelayVessels == 2

NumDelayCargoes == 2

InitDelayPairwise ==
    /\ \E VS \in SUBSET (1..NumDelayVessels), CS \in SUBSET (1..NumDelayCargoes),
          with_market \in BOOLEAN, port_delays \in DelayDicts :
          pw = [ vessels |-> Pick(AllVessels, VS),
                 cargoes |-> Pick(AllCargoes, CS)
                               \o (IF with_market THEN <<GwangyangOre>> ELSE <<>>),
                 use_eco_speed |-> TRUE, dual_speed_mode |-> FALSE,
                 extra_port_delay |-> 0, bunker_adjustment |-> 100,
                 maximize |-> "profit", include_negative_profit |-> FALSE,
                 port_delays |-> port_delays ]
    /\ portfolio = Idle
    /\ pc = "optimize"
    /\ q_vessel = Idle /\ q_cargo = Idle /\ q_eco = FALSE
    /\ q_delay = 0 /\ q_adj = 100 /\ voyage = NoVoyage /\ rt = Idle
    /\ fp = Idle /\ plans = Idle /\ baseline = Idle /\ tp = Idle /\ dm = Idle /\ bk = Idle

InitDelayJoint ==
    /\ \E CV \in SUBSET (1..NumDelayVessels), CC \in SUBSET (1..NumDelayCargoes),
          with_market \in BOOLEAN, port_delays \in DelayDicts :
          fp = [ cargill_vessels |-> Pick(OwnedCatalog, CV),
                 market_vessels |-> <<>>,
                 cargill_cargoes |-> Pick(CommittedCatalog, CC),
                 market_cargoes |-> IF with_market THEN <<GwangyangOre>> ELSE <<>>,
                 use_eco_speed |-> TRUE, dual_speed_mode |-> FALSE,
                 target_tce |-> 18000, top_n |-> 1, port_delays |-> port_delays ]
    /\ plans = Idle /\ baseline = Idle
    /\ pc = "plan"
    /\ q_vessel = Idle /\ q_cargo = Idle /\ q_eco = FALSE
    /\ q_delay = 0 /\ q_adj = 100 /\ voyage = NoVoyage /\ rt = Idle
    /\ pw = Idle /\ portfolio = Idle /\ tp = Idle /\ dm = Idle /\ bk = Idle

InitDelay == InitDelayPairwise \/ InitDelayJoint

NextDelay == OptimizeAssignments \/ OptimizeFullPortfolio

SpecDelay == InitDelay /\ [][NextDelay]_vars


(***************************************************************************)
(* PortDistanceManager: lookups against a loaded table, with the audit     *)
(* counters _lookup_stats and _estimate_usage                              *)
(***************************************************************************)
\* rows that Port_Distances.csv may hold; the file lists a route in one
\* direction, in both, or under either alias of a port
CsvRows ==
    ( <<"KAMSAR ANCHORAGE", "QINGDAO">>          :> 10900 ) @@
    ( <<"DAGANG (QINGDAO)", "PORT KAMSAR">>      :> 11050 ) @@
    ( <<"PORT KAMSAR", "DAGANG (QINGDAO)">>      :> 11000 ) @@
    ( <<"QINGDAO", "PORT HEDLAND">>              :> 3500 ) @@
    ( <<"PORT HEDLAND", "DAGANG (QINGDAO)">>     :> 3520 )

\* the names that lookups are made with
LookupPorts ==
    {"Qingdao", "DAGANG (QINGDAO)", "KAMSAR", "PORT HEDLAND", "MAP TA PHUT", "ATLANTIS"}

\* how many lookups a client makes
MaxLookups == 3

NoLookup == [made |-> FALSE]

InitDistance ==
    /\ \E rows \in SUBSET (DOMAIN CsvRows) :
          dm = [ distances |-> [key \in rows |-> CsvRows[key]],
                 lookup_stats |-> [csv |-> 0, csv_reverse |-> 0, estimate |-> 0,
                                   not_found |-> 0],
                 estimate_usage |-> <<>>,
                 lookups |-> 0, unresolved |-> 0, last |-> NoLookup ]
    /\ pc = "lookup"
    /\ q_vessel = Idle /\ q_cargo = Idle /\ q_eco = FALSE
    /\ q_delay = 0 /\ q_adj = 100 /\ voyage = NoVoyage /\ rt = Idle
    /\ pw = Idle /\ portfolio = Idle
    /\ fp = Idle /\ plans = Idle /\ baseline = Idle /\ tp = Idle /\ bk = Idle

\* self._lookup_stats[tier] += 1
StatsCounted(lookup_stats, source) ==
    IF source = "CSV" THEN [lookup_stats EXCEPT !.csv = @ + 1]
    ELSE IF source = "CSV_REVERSE" THEN [lookup_stats EXCEPT !.csv_reverse = @ + 1]
    ELSE IF source = "ESTIMATE" THEN [lookup_stats EXCEPT !.estimate = @ + 1]
    ELSE [lookup_stats EXCEPT !.not_found = @ + 1]

\* variant: a lookup answered by an estimate is left out of _estimate_usage
UsageNotCounted(estimate_usage, source, key) == estimate_usage

\* self._estimate_usage[key] = self._estimate_usage.get(key, 0) + 1, for a
\* lookup answered by an estimate; the dictionary is a sequence of
\* <<key, count>> in insertion order
UsageCounted(estimate_usage, source, key) ==
    IF source # "ESTIMATE" THEN estimate_usage
    ELSE IF \E i \in DOMAIN estimate_usage : estimate_usage[i][1] = key
    THEN [i \in DOMAIN estimate_usage |->
            IF estimate_usage[i][1] = key
            THEN <<key, estimate_usage[i][2] + 1>> ELSE estimate_usage[i]]
    ELSE Append(estimate_usage, <<key, 1>>)

\* the manager after one call of get_distance_with_source that returned found
Looked(self, port_from, port_to, found) ==
    [self EXCEPT
       !.lookup_stats = StatsCounted(@, found.source),
       !.estimate_usage = UsageCounted(@, found.source,
                                       <<Upper(port_from), Upper(port_to)>>),
       !.lookups = @ + 1,
       !.unresolved = IF found.distance = NotFound THEN @ + 1 ELSE @]

\* a client calls get_distance_with_source(port_from, port_to)
GetDistanceWithSource ==
    /\ pc = "lookup"
    /\ dm.lookups < MaxLookups
    /\ \E port_from \in LookupPorts, port_to \in LookupPorts :
          LET Answered(found) ==
                  [Looked(dm, port_from, port_to, found) EXCEPT
                     !.last = [made |-> TRUE, port_from |-> port_from,
                               port_to |-> port_to, distance |-> found.distance,
                               source |-> found.source]]
          IN  dm' = Answered(distance_with_source(dm.distances, normalized_estimates,
                                                   port_from, port_to))
    /\ UNCHANGED <<rt, q_vessel, q_cargo, q_eco, q_delay, q_adj, voyage, pc, pw,
                   portfolio, fp, plans, baseline, tp, bk>>

\* get_lookup_stats()
get_lookup_stats(self) ==
    [ total_lookups |-> self.lookup_stats.csv + self.lookup_stats.csv_reverse
                          + self.lookup_stats.estimate + self.lookup_stats.not_found,
      csv_lookups |-> self.lookup_stats.csv,
      csv_reverse_lookups |-> self.lookup_stats.csv_reverse,
      estimate_lookups |-> self.lookup_stats.estimate,
      not_found |-> self.lookup_stats.not_found,
      estimates_used |-> self.estimate_usage ]

\* the loop of print_lookup_report over the routes of estimates_used, each
\* of which it looks up again with get_distance
RECURSIVE ReportLoop(_, _, _)
ReportLoop(self, estimates_used, i) ==
    IF i > Len(estimates_used) THEN self
    ELSE ReportLoop(Looked(self, estimates_used[i][1][1], estimates_used[i][1][2],
                           distance_with_source(self.distances, normalized_estimates,
                                                estimates_used[i][1][1],
                                                estimates_used[i][1][2])),
                    estimates_used, i + 1)

\* print_lookup_report()
PrintLookupReport ==
    /\ pc = "lookup"
    /\ dm.lookups < MaxLookups
    /\ dm.estimate_usage # <<>>
    /\ dm' = ReportLoop(dm, get_lookup_stats(dm).estimates_used, 1)
    /\ UNCHANGED <<rt, q_vessel, q_cargo, q_eco, q_delay, q_adj, voyage, pc, pw,
                   portfolio, fp, plans, baseline, tp, bk>>

NextDistance == GetDistanceWithSource \/ PrintLookupReport

SpecDistance == InitDistance /\ [][NextDistance]_vars


(***************************************************************************)
(* The bunkering sub-optimization on its own: find_optimal_bunker_port     *)
(* for a vessel open at Rotterdam or Map Ta Phut and a cargo loading at    *)
(* the other, over the curated estimates between these two ports and the   *)
(* nine hubs (no row of the reference table covers them)                   *)
(***************************************************************************)
hub_distances ==
    ( <<"SINGAPORE", "ROTTERDAM">>       :> 9200 ) @@
    ( <<"SINGAPORE", "MAP TA PHUT">>     :> 763 ) @@
    ( <<"FUJAIRAH", "ROTTERDAM">>        :> 6800 ) @@
    ( <<"FUJAIRAH", "MAP TA PHUT">>      :> 3400 ) @@
    ( <<"ROTTERDAM", "MAP TA PHUT">>     :> 9900 ) @@
    ( <<"GIBRALTAR", "ROTTERDAM">>       :> 1750 ) @@
    ( <<"GIBRALTAR", "MAP TA PHUT">>     :> 9200 ) @@
    ( <<"DURBAN", "ROTTERDAM">>          :> 7000 ) @@
    ( <<"DURBAN", "MAP TA PHUT">>        :> 4700 ) @@
    ( <<"QINGDAO", "ROTTERDAM">>         :> 12500 ) @@
    ( <<"QINGDAO", "MAP TA PHUT">>       :> 2000 ) @@
    ( <<"SHANGHAI", "ROTTERDAM">>        :> 12200 ) @@
    ( <<"SHANGHAI", "MAP TA PHUT">>      :> 1750 ) @@
    ( <<"PORT LOUIS", "ROTTERDAM">>      :> 7800 ) @@
    ( <<"PORT LOUIS", "MAP TA PHUT">>    :> 3200 ) @@
    ( <<"RICHARDS BAY", "ROTTERDAM">>    :> 7200 ) @@
    ( <<"RICHARDS BAY", "MAP TA PHUT">>  :> 4900 )

HubPorts == {"ROTTERDAM", "MAP TA PHUT"} \cup Range(ALL_BUNKER_PORTS)

\* a FreightCalculator whose distance manager has loaded an empty table
HubCalculator ==
    [ distances     |-> [leg \in HubPorts \X HubPorts |->
                           distance_with_source(<<>>, Normalized(hub_distances),
                                                leg[1], leg[2]).distance],
      bunker_prices |-> [at \in HubPorts \X FuelTypes |-> get_price(at[1], at[2])] ]

\* a vessel with the particulars of PACIFIC VANGUARD, open at Rotterdam with
\* 897.8 MT VLSFO and 63.7 MT MGO on board
RotterdamOpen ==
    [ name |-> "PACIFIC VANGUARD (ROTTERDAM)", dwt |-> 182050, hire_rate |-> 0,
      speed_laden |-> 136, speed_ballast |-> 143,
      speed_laden_eco |-> 120, speed_ballast_eco |-> 125,
      fuel_laden_vlsfo |-> 590, fuel_laden_mgo |-> 19,
      fuel_ballast_vlsfo |-> 540, fuel_ballast_mgo |-> 19,
      fuel_laden_eco_vlsfo |-> 420, fuel_laden_eco_mgo |-> 19,
      fuel_ballast_eco_vlsfo |-> 380, fuel_ballast_eco_mgo |-> 19,
      port_idle_mgo |-> 19, port_working_mgo |-> 30,
      current_port |-> "ROTTERDAM", etd |-> 25,
      bunker_rob_vlsfo |-> 89780, bunker_rob_mgo |-> 6370,
      is_cargill |-> FALSE ]

\* a market coal cargo with the terms of Teck Coking Coal, offered from
\* Map Ta Phut to Rotterdam
MapTaPhutCoal ==
    MkCargo("Map Ta Phut Coal", 160000, 10, 45, 53, 0, "MAP TA PHUT", 45000, 12,
            "ROTTERDAM", 25000, 24, 180000, 110000, 375, FALSE, 0)

\* the same vessel open at Map Ta Phut, and the same cargo offered the
\* other way
MapTaPhutOpen ==
    [RotterdamOpen EXCEPT !.name = "PACIFIC VANGUARD (MAP TA PHUT)",
                          !.current_port = "MAP TA PHUT"]

RotterdamCoal ==
    [MapTaPhutCoal EXCEPT !.name = "Rotterdam Coal", !.load_port = "ROTTERDAM",
                          !.discharge_port = "MAP TA PHUT"]

\* the shortfalls (hundredths of a tonne) that calculate_voyage asks a stop for
NeededVlsfo == {0, 60000, 170000, 175000, 180000, 182000, 185000, 190000}

NeededMgo == {0, 2000, 10000}

InitBunker ==
    /\ q_vessel \in {RotterdamOpen, MapTaPhutOpen}
    /\ q_cargo \in {MapTaPhutCoal, RotterdamCoal}
    /\ q_eco \in BOOLEAN
    /\ \E bunker_needed_vlsfo \in NeededVlsfo, bunker_needed_mgo \in NeededMgo :
          /\ NeedsBunkering(bunker_needed_vlsfo + bunker_needed_mgo)
          /\ bk = [ bunker_needed_vlsfo |-> bunker_needed_vlsfo,
                    bunker_needed_mgo |-> bunker_needed_mgo,
                    found |-> Idle ]
    /\ pc = "bunker"
    /\ q_delay = 0 /\ q_adj = 100 /\ voyage = NoVoyage /\ rt = Idle
    /\ pw = Idle /\ portfolio = Idle
    /\ fp = Idle /\ plans = Idle /\ baseline = Idle /\ tp = Idle /\ dm = Idle

\* find_optimal_bunker_port as section 8a of calculate_voyage calls it
FindOptimalBunkerPort ==
    /\ pc = "bunker"
    /\ bk' = [bk EXCEPT !.found =
                find_optimal_bunker_port(HubCalculator, q_vessel, q_cargo,
                    bk.bunker_needed_vlsfo, bk.bunker_needed_mgo,
                    IF q_eco THEN q_vessel.speed_ballast_eco ELSE q_vessel.speed_ballast,
                    IF q_eco THEN q_vessel.fuel_ballast_eco_vlsfo
                             ELSE q_vessel.fuel_ballast_vlsfo,
                    IF q_eco THEN q_vessel.fuel_ballast_eco_mgo
                             ELSE q_vessel.fuel_ballast_mgo,
                    q_vessel.hire_rate)]
    /\ pc' = "found"
    /\ UNCHANGED <<rt, q_vessel, q_cargo, q_eco, q_delay, q_adj, voyage, pw,
                   portfolio, fp, plans, baseline, tp, dm>>

NextBunker == FindOptimalBunkerPort

SpecBunker == InitBunker /\ [][NextBunker]_vars


(***************************************************************************)
(* Benchmark rates for cargoes without a freight rate                      *)
(***************************************************************************)
\* _BRAZIL_ORIGINS and _AUSTRALIA_ORIGINS
BRAZIL_ORIGINS == {"TUBARAO", "PONTA DA MADEIRA", "ITAGUAI"}

AUSTRALIA_ORIGINS == {"HEDLAND", "DAMPIER"}

estimate_freight_rate(cargo) ==
    LET port == Upper(cargo.load_port)
    IN  IF cargo.freight_rate # 0 THEN cargo.freight_rate
        ELSE IF AnyIn(BRAZIL_ORIGINS, port) THEN 21
        ELSE IF AnyIn(AUSTRALIA_ORIGINS, port) THEN 9
        ELSE 15

apply_estimated_freight_rate(cargo) ==
    IF cargo.freight_rate # 0 THEN cargo
    ELSE [cargo EXCEPT !.freight_rate = estimate_freight_rate(cargo)]

\* load ports of the cargoes of create_market_cargoes() and
\* create_cargill_cargoes() that the distance table resolves
RateLoadPorts ==
    {"PONTA DA MADEIRA", "PORT HEDLAND", "KAMSAR ANCHORAGE", "ITAGUAI"}

\* how many catalog vessels the rate queries draw from
NumRateVessels == 3

\* a vessel and a cargo of either catalog, the cargo loading at any of the
\* load ports; neither the single-pair query nor the joint optimizer has
\* costed the pair yet
InitRate ==
    /\ \E v \in 1..NumRateVessels, c \in DOMAIN AllCargoes, p \in RateLoadPorts,
          use_eco \in BOOLEAN :
          rt = [ vessel |-> AllVessels[v],
                 cargo |-> [AllCargoes[c] EXCEPT !.load_port = p],
                 use_eco |-> use_eco, service |-> Idle, option |-> Idle ]
    /\ pc = "rate"
    /\ q_vessel = Idle /\ q_cargo = Idle /\ q_eco = FALSE
    /\ q_delay = 0 /\ q_adj = 100 /\ voyage = NoVoyage
    /\ pw = Idle /\ portfolio = Idle
    /\ fp = Idle /\ plans = Idle /\ baseline = Idle /\ tp = Idle /\ dm = Idle /\ bk = Idle

\* CalculatorService.calculate_voyage: the single-pair query
ServiceCalculateVoyage ==
    /\ pc = "rate" /\ rt.service = Idle
    /\ rt' = [rt EXCEPT !.service =
                [ effective_cargo |-> apply_estimated_freight_rate(rt.cargo),
                  result |-> Voyage(rt.vessel, apply_estimated_freight_rate(rt.cargo),
                                    rt.use_eco, 0, 100) ]]
    /\ UNCHANGED <<q_vessel, q_cargo, q_eco, q_delay, q_adj, voyage, pc, pw,
                   portfolio, fp, plans, baseline, tp, dm, bk>>

\* FullPortfolioOptimizer._calculate_option: the joint optimizer's costing
\* of the same pair
CalculateOption ==
    /\ pc = "rate" /\ rt.option = Idle
    /\ rt' = [rt EXCEPT !.option =
                [ temp_cargo |-> temp_cargo(rt.cargo),
                  option |-> calculate_option(rt.vessel, rt.cargo,
                                 IF rt.vessel.is_cargill THEN "cargill" ELSE "market",
                                 IF rt.cargo.is_cargill THEN "cargill" ELSE "market",
                                 rt.use_eco, 18000, 0) ]]
    /\ UNCHANGED <<q_vessel, q_cargo, q_eco, q_delay, q_adj, voyage, pc, pw,
                   portfolio, fp, plans, baseline, tp, dm, bk>>

NextRate == ServiceCalculateVoyage \/ CalculateOption

SpecRate == InitRate /\ [][NextRate]_vars

(***************************************************************************)
(* All three scenarios together                                            *)
(***************************************************************************)
Init == InitVoyage \/ InitPairwise \/ InitJoint

Next == CalculateVoyage \/ OptimizeAssignments \/ OptimizeFullPortfolio
          \/ OptimizeOwnedOnly

Spec == Init /\ [][Next]_vars

(***************************************************************************)
(* Properties of the plans of the joint optimizer                          *)
(***************************************************************************)
NoRepeats(s) == \A i, j \in DOMAIN s : s[i] = s[j] => i = j

\* optimize_full_portfolio has returned plans
Planned == pc = "plan" /\ plans # Idle /\ ~plans.raised

Triples(r) == r.cargill_vessel_assignments \o r.market_vessel_assignments

CoverCount(r, cargo_name) ==
    Cardinality({i \in DOMAIN Triples(r) : Triples(r)[i][2] = cargo_name})

\* C1: in every plan, normal or fallback, each committed cargo is either the
\* cargo of exactly one assignment triple or listed in
\* unassigned_cargill_cargoes, never both and never neither
C1_CommittedCoveredOnceOrUnassigned ==
    Planned =>
        \A k \in DOMAIN plans.results :
            \A c \in Range(Names(fp.cargill_cargoes)) :
                LET r == plans.results[k]
                IN  \/ CoverCount(r, c) = 1 /\ c \notin Range(r.unassigned_cargill_cargoes)
                    \/ CoverCount(r, c) = 0 /\ c \in Range(r.unassigned_cargill_cargoes)

\* a plan that covers one committed cargo and reports another unassigned
C1_Witness ==
    /\ Planned
    /\ \E c, d \in Range(Names(fp.cargill_cargoes)) :
          /\ CoverCount(plans.results[1], c) = 1
          /\ d \in Range(plans.results[1].unassigned_cargill_cargoes)

\* C2: in every plan no vessel name and no cargo name occurs in more than
\* one triple of the two assignment lists taken together
C2_NoNameInTwoTriples ==
    Planned =>
        \A k \in DOMAIN plans.results :
            LET t == Triples(plans.results[k])
            IN  /\ NoRepeats([i \in DOMAIN t |-> t[i][1]])
                /\ NoRepeats([i \in DOMAIN t |-> t[i][2]])

\* a plan with owned vessels on committed and optional cargoes and a hired
\* vessel on a committed cargo
C2_Witness ==
    /\ Planned
    /\ Len(plans.results[1].cargill_vessel_assignments) >= 2
    /\ Len(plans.results[1].market_vessel_assignments) >= 1
    /\ \E i \in DOMAIN plans.results[1].cargill_vessel_assignments :
          plans.results[1].cargill_vessel_assignments[i][3].cargo_type = "market"


(***************************************************************************)
(* Properties of the pairwise optimizer                                    *)
(***************************************************************************)
\* optimize_assignments has returned a PortfolioResult
Assigned == pc = "assigned" /\ ~portfolio.raised

\* names that are a partition of the list all into the parts taken and left
Partitions(all, taken, left) ==
    /\ taken \cup Range(left) = Range(all)
    /\ taken \cap Range(left) = {}
    /\ NoRepeats(left)

\* the vessels with a valid row, which decide between the two methods
ValidVesselsOf(in) ==
    LET df == calculate_all_voyages(in.vessels, in.cargoes, in.use_eco_speed,
                                    in.extra_port_delay, in.bunker_adjustment,
                                    in.port_delays, in.dual_speed_mode)
        filtered == ValidRows(df, in.include_negative_profit)
    IN  {filtered[i].vessel : i \in DOMAIN filtered}

\* C3: in every PortfolioResult, from brute force or from the Hungarian
\* method, each vessel and each cargo is in at most one triple, and the
\* assigned and the unassigned names partition the input lists
C3_AssignmentsPartitionInputs ==
    Assigned =>
        LET a == portfolio.assignments
        IN  /\ NoRepeats([i \in DOMAIN a |-> a[i][1]])
            /\ NoRepeats([i \in DOMAIN a |-> a[i][2]])
            /\ Partitions(Names(pw.vessels), {a[i][1] : i \in DOMAIN a},
                          portfolio.unassigned_vessels)
            /\ Partitions(Names(pw.cargoes), {a[i][2] : i \in DOMAIN a},
                          portfolio.unassigned_cargoes)

\* a Hungarian result with several triples that leaves a vessel and a cargo
C3_Witness ==
    /\ Assigned
    /\ Cardinality(ValidVesselsOf(pw)) > 5
    /\ Len(portfolio.assignments) >= 3
    /\ portfolio.unassigned_vessels # <<>>
    /\ portfolio.unassigned_cargoes # <<>>

(***************************************************************************)
(* The joint optimum against the Cargill-only optimum                      *)
(***************************************************************************)
\* both optimizers have returned for the same fleet and cargo book
Compared == Planned /\ baseline # Idle /\ ~baseline.raised

\* C4: the first plan of optimize_full_portfolio earns at least the
\* total_profit of optimize_assignments run on the owned vessels and the
\* committed cargoes only, in the same speed mode and without delays
C4_JointAtLeastOwnedOnly ==
    Compared => plans.results[1].total_profit >= baseline.total_profit

(***************************************************************************)
(* The fallback plan for a book with an uncoverable committed cargo        *)
(***************************************************************************)
\* the vessel or cargo record of the given name
ByName(records, name) == records[CHOOSE i \in DOMAIN records : records[i].name = name]

\* whether the vessel reaches the cargo inside its laycan at a speed of the mode
Feasible(vessel, cargo, in) ==
    \E k \in DOMAIN speed_options(in.use_eco_speed, in.dual_speed_mode) :
        LET result == Voyage(vessel, temp_cargo(cargo),
                             speed_options(in.use_eco_speed, in.dual_speed_mode)[k],
                             0, 100)
        IN  result.ok /\ result.can_make_laycan

\* committed cargoes that no owned and no hireable vessel can cover
Uncovered(in) ==
    {c \in Range(in.cargill_cargoes) :
        \A v \in Range(in.cargill_vessels) \cup Range(in.market_vessels) :
            ~Feasible(v, c, in)}

\* the laycan-feasible rows that the optimizer chooses from
ValidOptionsOf(in) ==
    valid_options_of(calculate_all_options(in.cargill_vessels, in.market_vessels,
                                           in.cargill_cargoes, in.market_cargoes,
                                           in.use_eco_speed, in.target_tce,
                                           in.dual_speed_mode, in.port_delays),
                     in.dual_speed_mode)

\* the vessels a plan gives to the committed cargoes listed before position i
TakenBefore(r, in, i) ==
    {Triples(r)[k][1] : k \in {j \in DOMAIN Triples(r) :
        \E h \in 1..(i - 1) : in.cargill_cargoes[h].name = Triples(r)[j][2]}}

\* the plan treats the committed cargo at position i greedily: it gets a row
\* of the largest net_profit among the rows of vessels still free, and stays
\* unassigned only when there is no such row
GreedyAt(r, in, i) ==
    LET cargo_name == in.cargill_cargoes[i].name
        rows == ValidOptionsOf(in)
        free == {rows[k] : k \in {j \in DOMAIN rows :
                    /\ rows[j].cargo = cargo_name
                    /\ rows[j].vessel \notin TakenBefore(r, in, i)}}
        mine == {Triples(r)[k] : k \in {j \in DOMAIN Triples(r) :
                    Triples(r)[j][2] = cargo_name}}
    IN  IF free = {} THEN mine = {}
        ELSE /\ Cardinality(mine) = 1
             /\ \A t \in mine :
                   /\ \E row \in free : row.vessel = t[1] /\ row.option = t[3]
                   /\ \A row \in free : row.net_profit <= t[3].net_profit

Fails(vessel, cargo) ==
    ~Voyage(vessel, temp_cargo(cargo), TRUE, 0, 100).ok

\* the pairs the joint optimizer costs: owned vessels on every cargo and
\* hireable vessels on committed cargoes
CostedPairs(in) ==
    (Range(in.cargill_vessels)
        \X (Range(in.cargill_cargoes) \cup Range(in.market_cargoes)))
    \cup (Range(in.market_vessels) \X Range(in.cargill_cargoes))

\* no triple of the list pairs a vessel with a cargo it cannot be costed for
NoFailedTriple(triples, vessels, cargoes) ==
    \A k \in DOMAIN triples :
        ~Fails(ByName(vessels, triples[k][1]), ByName(cargoes, triples[k][2]))

\* no coverage list of a committed cargo holds a vessel that fails on it
NoFailedCoverage(in) ==
    LET lists == cargo_coverage(ValidOptionsOf(in), in.cargill_cargoes)
        fleet == in.cargill_vessels \o in.market_vessels
    IN  \A i \in DOMAIN lists : \A k \in DOMAIN lists[i] :
            ~Fails(ByName(fleet, lists[i][k].vessel), in.cargill_cargoes[i])

\* C6: a pair for which calculate_voyage fails is in no assignment and in no
\* coverage list, and an optimizer that meets such a pair still returns a
\* result instead of failing
C6_FailedPairsAreSkipped ==
    /\ pc = "assigned" =>
          /\ (\E v \in Range(pw.vessels), c \in Range(pw.cargoes) : Fails(v, c))
                => ~portfolio.raised
          /\ ~portfolio.raised
                => NoFailedTriple(portfolio.assignments, pw.vessels, pw.cargoes)
    /\ (pc = "plan" /\ baseline # Idle) =>
          /\ (\E v \in Range(fp.cargill_vessels), c \in Range(fp.cargill_cargoes) :
                 Fails(v, c)) => ~baseline.raised
          /\ ~baseline.raised
                => NoFailedTriple(baseline.assignments, fp.cargill_vessels,
                                  fp.cargill_cargoes)
    /\ (pc = "plan" /\ plans # Idle) =>
          /\ (\E pair \in CostedPairs(fp) : Fails(pair[1], pair[2])) => ~plans.raised
          /\ ~plans.raised =>
                /\ NoFailedCoverage(fp)
                /\ \A k \in DOMAIN plans.results :
                      NoFailedTriple(Triples(plans.results[k]),
                                     fp.cargill_vessels \o fp.market_vessels,
                                     fp.cargill_cargoes \o fp.market_cargoes)

\* both optimizers have planned around a pair that fails: the committed
\* cargo of the pair is carried by another vessel
C6_Witness ==
    /\ Compared
    /\ baseline.assignments # <<>>
    /\ \E v \in Range(fp.cargill_vessels), c \in Range(fp.cargill_cargoes) :
          /\ Fails(v, c)
          /\ CoverCount(plans.results[1], c.name) = 1
          /\ v.name \in {Triples(plans.results[1])[k][1] :
                            k \in DOMAIN Triples(plans.results[1])}

(***************************************************************************)
(* Missed laycans                                                          *)
(***************************************************************************)
\* the vessel, sailing at its ETD at the ballast speed of the mode, is at
\* the load port after the last day of the laycan
ArrivesLate(vessel, cargo, use_eco_speed) ==
    LET distance == get_distance(vessel.current_port, cargo.load_port)
        speed    == IF use_eco_speed THEN vessel.speed_ballast_eco
                                     ELSE vessel.speed_ballast
    IN  /\ distance # NotFound
        /\ vessel.etd * TicksPerDay + SteamingTicks(distance, speed)
              > cargo.laycan_end * TicksPerDay

\* every VoyageResult of the list is of an arrival inside the laycan
NoLateResult(results) ==
    \A k \in DOMAIN results :
        /\ results[k].ok
        /\ results[k].can_make_laycan
        /\ results[k].arrival_date <= results[k].laycan_end

\* C7: a pair whose arrival at the load port is after laycan end is
\* returned by calculate_voyage as a normal VoyageResult with
\* can_make_laycan False, and no assignment of optimize_assignments or of
\* optimize_full_portfolio holds such a pair
C7_LateArrivalIsFlaggedAndNeverAssigned ==
    /\ (pc = "costed" /\ ArrivesLate(q_vessel, q_cargo, q_eco))
          => voyage.ok /\ ~voyage.can_make_laycan
    /\ Costed => (voyage.can_make_laycan <=> voyage.arrival_date <= voyage.laycan_end)
    /\ Assigned =>
          NoLateResult([k \in DOMAIN portfolio.assignments |->
                           portfolio.assignments[k][3]])
    /\ (pc = "plan" /\ baseline # Idle /\ ~baseline.raised) =>
          NoLateResult([k \in DOMAIN baseline.assignments |->
                           baseline.assignments[k][3]])
    /\ Planned =>
          \A n \in DOMAIN plans.results :
              NoLateResult([k \in DOMAIN Triples(plans.results[n]) |->
                               Triples(plans.results[n])[k][3].result])

\* optimize_assignments has left out a profitable pair because it is late
C7_Witness ==
    /\ Assigned
    /\ portfolio.assignments # <<>>
    /\ \E v \in Range(pw.vessels), c \in Range(pw.cargoes) :
          /\ ArrivesLate(v, c, pw.use_eco_speed)
          /\ ~pw.dual_speed_mode
          /\ Voyage(v, c, pw.use_eco_speed, 0, 100).ok
          /\ ~Voyage(v, c, pw.use_eco_speed, 0, 100).can_make_laycan
          /\ Voyage(v, c, pw.use_eco_speed, 0, 100).net_profit > 0
          /\ v.name \in Range(portfolio.unassigned_vessels)
          /\ c.name \in Range(portfolio.unassigned_cargoes)

(***************************************************************************)
(* No feasible pair                                                        *)
(***************************************************************************)
\* no pair of the input is inside its laycan and, unless negative profits
\* are admitted, profitable, at a speed of the mode
NoFeasiblePair(in) ==
    \A v \in Range(in.vessels), c \in Range(in.cargoes) :
        \A k \in DOMAIN speed_options(in.use_eco_speed, in.dual_speed_mode) :
            LET result == Voyage(v, c,
                                 speed_options(in.use_eco_speed, in.dual_speed_mode)[k],
                                 in.extra_port_delay, in.bunker_adjustment)
            IN  ~(/\ result.ok
                  /\ result.can_make_laycan
                  /\ (in.include_negative_profit \/ result.net_profit > 0))

\* C8: when no pair is feasible, optimize_assignments returns, without
\* raising, no assignment, every input vessel and cargo as unassigned, and
\* zero total_profit, total_tce and avg_tce
C8_NoFeasiblePairGivesEmptyResult ==
    (pc = "assigned" /\ NoFeasiblePair(pw)) =>
        /\ ~portfolio.raised
        /\ portfolio.assignments = <<>>
        /\ portfolio.unassigned_vessels = Names(pw.vessels)
        /\ portfolio.unassigned_cargoes = Names(pw.cargoes)
        /\ portfolio.total_profit = 0
        /\ portfolio.total_tce = 0
        /\ portfolio.avg_tce = 0

(***************************************************************************)
(* Bunkering-stop selection                                                *)
(***************************************************************************)
\* the voyage was routed via a refueling hub chosen by find_optimal_bunker_port
ViaHub(r) == r.num_bunkering_stops = 1 /\ r.ballast_leg_to_bunker > 0

\* C11: whenever a refueling hub is selected, the reported
\* bunker_port_savings (baseline cost at the load port minus the total cost
\* of the hub) is not negative
C11_SelectedHubNeverCostsMore ==
    (Costed /\ ViaHub(voyage)) => voyage.bunker_port_savings >= 0

(***************************************************************************)
(* Tipping points of the forward sweeps                                    *)
(***************************************************************************)
Returned == pc = "analyze" /\ tp.line = "return"

MinOf(S) == CHOOSE x \in S : \A y \in S : x <= y

\* the optimizer's set of pairs at a bunker multiplier and under a China
\* port delay differs from the baseline set
BunkerDiffers(adj) ==
    \E result \in Reoptimize(tp.vessels, tp.cargoes, adj, <<>>) :
        AssignmentSet(result) # AssignmentSet(tp.baseline)

DelayDiffers(days) ==
    \E result \in Reoptimize(tp.vessels, tp.cargoes, 100, china_port_delays(days)) :
        AssignmentSet(result) # AssignmentSet(tp.baseline)

\* the reported point is the first member of the range that differs, and
\* None exactly when no member does
ReportsFirst(point, differing) ==
    IF differing = {} THEN ~point.found
    ELSE point.found /\ point.at = MinOf(differing)

\* C12: find_tipping_points never raises; the bunker tipping point it returns
\* is the first multiplier of 1.00, 1.01, ..., 1 + max_bunker_increase_pct / 100
\* at which the optimizer's set of (vessel, cargo) pairs differs from the
\* baseline set, and None exactly when no multiplier of that range differs;
\* likewise the port-delay tipping point over 1..max_port_delay_days
C12_FirstDivergenceIsReported ==
    /\ (pc = "analyze") => tp.line # "raised"
    /\ Returned =>
         /\ ReportsFirst(tp.bunker,
                         { adj \in 100..(100 + tp.max_bunker_increase_pct) :
                             BunkerDiffers(adj) })
         /\ ReportsFirst(tp.port_delay,
                         { days \in 1..tp.max_port_delay_days : DelayDiffers(days) })

(***************************************************************************)
(* Monotonicity of the bunker sweep                                        *)
(***************************************************************************)
Sweeping == pc = "analyze" /\ tp.line \in {"bunker", "delay", "return"}

\* the steps of the bunker sweep before the first one whose assignment set
\* differs from the baseline set
BeforeDivergence ==
    { i \in DOMAIN tp.bunker_sweep :
        \A j \in 1..i :
            tp.bunker_sweep[j].assignments = AssignmentSet(tp.baseline) }

\* total profit at the step before step i; the baseline precedes the first
ProfitBefore(i) ==
    IF i = 1 THEN tp.baseline.total_profit ELSE tp.bunker_sweep[i - 1].total_profit

\* C13: in the sweep over increasing bunker multipliers from 1.0, the total
\* profit of every step before the first step whose assignment set differs
\* from the baseline is at most the total profit of the step before it
C13_ProfitFallsUntilAssignmentsChange ==
    Sweeping =>
        \A i \in BeforeDivergence : tp.bunker_sweep[i].total_profit <= ProfitBefore(i)

\* a sweep of forty steps that kept the baseline set of two pairs and lost
\* profit at every step after the first
C13_Witness ==
    /\ Sweeping
    /\ Cardinality(AssignmentSet(tp.baseline)) = 2
    /\ Cardinality(BeforeDivergence) >= 40
    /\ \A i \in BeforeDivergence :
          i > 1 => tp.bunker_sweep[i].total_profit < ProfitBefore(i)

(***************************************************************************)
(* Delays at ports that no cargo discharges at                             *)
(***************************************************************************)
\* the total profit an optimizer returns: of the pairwise result, and of the
\* best plan of the joint result
BestTotal(outcome) ==
    IF outcome.raised THEN outcome ELSE outcome.results[1].total_profit

PairTotal(outcome) == IF outcome.raised THEN outcome ELSE outcome.total_profit

\* the total profits the two optimizers can return under other port delays
PairwiseTotalsUnder(port_delays) ==
    { PairTotal(r) :
        r \in optimize_assignments(pw.vessels, pw.cargoes, pw.use_eco_speed,
                                   pw.extra_port_delay, pw.bunker_adjustment,
                                   pw.maximize, pw.include_negative_profit,
                                   port_delays, pw.dual_speed_mode) }

JointTotalsUnder(port_delays) ==
    { BestTotal(r) :
        r \in optimize_full_portfolio(fp.cargill_vessels, fp.market_vessels,
                                      fp.cargill_cargoes, fp.market_cargoes,
                                      fp.use_eco_speed, fp.target_tce,
                                      fp.dual_speed_mode, fp.top_n, port_delays) }

\* the dictionary with the delay of its k-th port changed
Redelayed(port_delays, k, delay) == [port_delays EXCEPT ![k] = <<@[1], delay>>]

NoDischargeAt(port, cargoes) ==
    \A i \in DOMAIN cargoes : cargoes[i].discharge_port # port

Committed(cargoes) == SelectSeq(cargoes, LAMBDA c : c.is_cargill)

\* the pairwise optimizer takes a key for a discharge port when either name
\* is part of the other
Unrelated(port, cargoes) ==
    \A i \in DOMAIN cargoes :
        /\ ~Contains(Upper(cargoes[i].discharge_port), Upper(port))
        /\ ~Contains(Upper(port), Upper(cargoes[i].discharge_port))

DelayedPairwise == pc = "assigned" /\ pw # Idle /\ pw.port_delays # <<>>

DelayedJoint == pc = "plan" /\ fp # Idle /\ plans # Idle /\ fp.port_delays # <<>>

\* C14: for both optimizers, changing the delay given for a port that is not
\* the discharge port of any committed cargo leaves the returned total
\* profit unchanged
C14_DelayOnUnusedPortKeepsProfit ==
    /\ DelayedPairwise =>
         \A k \in DOMAIN pw.port_delays, delay \in DelayValues :
             NoDischargeAt(pw.port_delays[k][1], Committed(pw.cargoes))
               => PairwiseTotalsUnder(Redelayed(pw.port_delays, k, delay))
                    = {PairTotal(portfolio)}
    /\ DelayedJoint =>
         \A k \in DOMAIN fp.port_delays, delay \in DelayValues :
             NoDischargeAt(fp.port_delays[k][1], fp.cargill_cargoes)
               => JointTotalsUnder(Redelayed(fp.port_delays, k, delay))
                    = {BestTotal(plans)}

\* C14 amended: the port is not the discharge port of any cargo given to
\* the optimizer, committed or market; for the pairwise optimizer its name
\* is moreover no part of a discharge port's name, nor the other way round
C14_DelayOnUnusedPortKeepsProfitAmended ==
    /\ DelayedPairwise =>
         \A k \in DOMAIN pw.port_delays, delay \in DelayValues :
             Unrelated(pw.port_delays[k][1], pw.cargoes)
               => PairwiseTotalsUnder(Redelayed(pw.port_delays, k, delay))
                    = {PairTotal(portfolio)}
    /\ DelayedJoint =>
         \A k \in DOMAIN fp.port_delays, delay \in DelayValues :
             NoDischargeAt(fp.port_delays[k][1],
                           fp.cargill_cargoes \o fp.market_cargoes)
               => JointTotalsUnder(Redelayed(fp.port_delays, k, delay))
                    = {BestTotal(plans)}

\* a joint plan that carries a committed cargo to Qingdao, made under
\* delays for Shanghai, where nothing discharges, and for Qingdao: another
\* delay at Qingdao changes the total profit
C14_Witness ==
    /\ DelayedJoint /\ ~plans.raised
    /\ Len(plans.results[1].cargill_vessel_assignments) > 0
    /\ Len(fp.port_delays) = 2
    /\ fp.port_delays[1][1] = "SHANGHAI"
    /\ fp.port_delays[2][1] = "QINGDAO"
    /\ NoDischargeAt("SHANGHAI", fp.cargill_cargoes \o fp.market_cargoes)
    /\ \E delay \in DelayValues :
          JointTotalsUnder(Redelayed(fp.port_delays, 2, delay)) # {BestTotal(plans)}

(***************************************************************************)
(* Cargoes without a freight rate                                          *)
(***************************************************************************)
ZeroRated(cargoes) ==
    { cargoes[i].name : i \in { j \in DOMAIN cargoes : cargoes[j].freight_rate = 0 } }

\* the voyages the pairwise optimizer costs for its fleet and book
PairwiseCostings ==
    calculate_all_voyages(pw.vessels, pw.cargoes, pw.use_eco_speed,
                          pw.extra_port_delay, pw.bunker_adjustment,
                          pw.port_delays, pw.dual_speed_mode)

\* the options the joint optimizer costs for its portfolio
JointCostings ==
    calculate_all_options(fp.cargill_vessels, fp.market_vessels,
                          fp.cargill_cargoes, fp.market_cargoes,
                          fp.use_eco_speed, fp.target_tce, fp.dual_speed_mode,
                          fp.port_delays)

\* C15: every voyage an optimizer costs for a cargo whose freight_rate is 0
\* is costed at a positive benchmark rate: its gross freight is positive
C15_ZeroRateCargoGetsBenchmark ==
    /\ (pc = "assigned" /\ pw # Idle) =>
         \A i \in DOMAIN PairwiseCostings :
             (PairwiseCostings[i].cargo \in ZeroRated(pw.cargoes)
                /\ PairwiseCostings[i].result.ok)
               => PairwiseCostings[i].result.gross_freight > 0
    /\ (pc = "plan" /\ fp # Idle /\ plans # Idle) =>
         \A i \in DOMAIN JointCostings :
             (JointCostings[i].cargo
                  \in ZeroRated(fp.cargill_cargoes \o fp.market_cargoes)
                /\ JointCostings[i].option.result.ok)
               => JointCostings[i].option.result.gross_freight > 0

(***************************************************************************)
(* Repeatability of the three entry points                                 *)
(***************************************************************************)
\* listed is the only order in which list(S) can come out
OnlyOrder(listed, S) == \A other \in list_of_set(S) : other = listed

\* a reported tipping point lists its pairs in the only possible order
FixedListing(point) ==
    point.found =>
        /\ OnlyOrder(point.old_assignments, Range(point.old_assignments))
        /\ OnlyOrder(point.new_assignments, Range(point.new_assignments))

\* C16: two runs of optimize_assignments, of optimize_full_portfolio and of
\* find_tipping_points on the same inputs return identical results, in
\* whatever order the sets they build are iterated: what a run returned is
\* the only value its inputs allow
C16_RerunsReturnTheSame ==
    /\ (pc = "assigned" /\ pw # Idle) =>
          optimize_assignments(pw.vessels, pw.cargoes, pw.use_eco_speed,
                               pw.extra_port_delay, pw.bunker_adjustment,
                               pw.maximize, pw.include_negative_profit,
                               pw.port_delays, pw.dual_speed_mode) = {portfolio}
    /\ (pc = "plan" /\ fp # Idle /\ plans # Idle) =>
          optimize_full_portfolio(fp.cargill_vessels, fp.market_vessels,
                                  fp.cargill_cargoes, fp.market_cargoes,
                                  fp.use_eco_speed, fp.target_tce,
                                  fp.dual_speed_mode, fp.top_n,
                                  fp.port_delays) = {plans}
    /\ (pc = "analyze" /\ tp # Idle /\ tp.line # "baseline") =>
          /\ Reoptimize(tp.vessels, tp.cargoes, 100, <<>>) = {tp.baseline}
          /\ FixedListing(tp.bunker)
          /\ FixedListing(tp.port_delay)

(***************************************************************************)
(* The optimum of the exhaustive search                                    *)
(***************************************************************************)
\* the rows optimize_assignments may choose from: in time for the laycan and,
\* unless negative profits are admitted, profitable
FeasibleRows(in) ==
    ValidRows(calculate_all_voyages(in.vessels, in.cargoes, in.use_eco_speed,
                                    in.extra_port_delay, in.bunker_adjustment,
                                    in.port_delays, in.dual_speed_mode),
              in.include_negative_profit)

\* the totals of every one-to-one partial assignment of the cargoes from
\* position k on to vessels outside used, each pair by one of its rows
RECURSIVE PartialTotals(_, _, _, _)
PartialTotals(rows, cargo_names, k, used) ==
    IF k > Len(cargo_names)
    THEN {[total_profit |-> 0, total_tce |-> 0, size |-> 0]}
    ELSE PartialTotals(rows, cargo_names, k + 1, used)
           \cup UNION { { [total_profit |-> t.total_profit + rows[i].net_profit,
                           total_tce |-> t.total_tce + rows[i].tce,
                           size |-> t.size + 1] :
                            t \in PartialTotals(rows, cargo_names, k + 1,
                                                used \cup {rows[i].vessel}) } :
                        i \in {j \in DOMAIN rows :
                                 /\ rows[j].cargo = cargo_names[k]
                                 /\ rows[j].vessel \notin used} }

\* the totals of the non-empty assignments
NonEmptyTotals(in) ==
    {t \in PartialTotals(FeasibleRows(in), Names(in.cargoes), 1, {}) : t.size > 0}

\* the exhaustive search is the method that ran
BruteForced ==
    /\ Assigned /\ pw # Idle
    /\ Cardinality(ValidVesselsOf(pw)) <= 5
    /\ Cardinality({FeasibleRows(pw)[i].cargo : i \in DOMAIN FeasibleRows(pw)}) <= 5
    /\ FeasibleRows(pw) # <<>>

\* the result is one of the assignments and none scores higher
IsOptimum(result, totals, maximize) ==
    /\ \E t \in totals : /\ t.total_profit = result.total_profit
                         /\ t.total_tce = result.total_tce
                         /\ t.size = Len(result.assignments)
    /\ \A t \in totals :
          IF maximize = "tce"
          THEN t.total_tce * Len(result.assignments) <= result.total_tce * t.size
          ELSE t.total_profit <= result.total_profit

\* C17: by exhaustive search optimize_assignments returns, for the objective
\* 'profit', an assignment whose total_profit is the largest sum of net
\* profits over all non-empty one-to-one partial assignments of feasible
\* pairs, and for the objective 'tce' one whose average TCE is the largest
C17_BruteForceIsOptimal ==
    BruteForced => IsOptimum(portfolio, NonEmptyTotals(pw), pw.maximize)

\* a search among several vessels and cargoes under the objective 'tce' that
\* assigns fewer pairs than the most profitable assignment would
C17_Witness ==
    /\ BruteForced
    /\ pw.maximize = "tce"
    /\ Cardinality(ValidVesselsOf(pw)) >= 3
    /\ \E t \in NonEmptyTotals(pw) :
          /\ t.size > Len(portfolio.assignments)
          /\ t.total_profit > portfolio.total_profit

(***************************************************************************)
(* The cost-matrix method against the exhaustive search                    *)
(***************************************************************************)
\* valid_df: the feasible rows, in dual-speed mode the best row of each pair
ValidFrame(in) ==
    IF in.dual_speed_mode THEN BestPerPair(FeasibleRows(in), in.maximize)
    ELSE FeasibleRows(in)

\* what _optimize_brute_force returns on the pair table of the call
ByBruteForce(in) ==
    optimize_brute_force(in.vessels, in.cargoes,
                         Unique([i \in DOMAIN ValidFrame(in) |-> ValidFrame(in)[i].vessel]),
                         Unique([i \in DOMAIN ValidFrame(in) |-> ValidFrame(in)[i].cargo]),
                         voyage_lookup(ValidFrame(in)), in.maximize)

\* the cost-matrix method is the one that ran, for the objective 'profit'
Hungarianed ==
    /\ Assigned /\ pw # Idle
    /\ pw.maximize = "profit"
    /\ FeasibleRows(pw) # <<>>
    /\ \/ Cardinality(ValidVesselsOf(pw)) > 5
       \/ Cardinality({FeasibleRows(pw)[i].cargo : i \in DOMAIN FeasibleRows(pw)}) > 5

\* C18: for the objective 'profit' the result of _optimize_hungarian has the
\* total_profit that _optimize_brute_force returns on the same table of
\* feasible pairs, also when some pairs are infeasible and carry the penalty
C18_HungarianMatchesBruteForce ==
    Hungarianed => portfolio.total_profit = ByBruteForce(pw).total_profit

(***************************************************************************)
(* The optimum of the joint search                                         *)
(***************************************************************************)
\* every way to give the committed cargoes from position i on one feasible
\* vessel each, no vessel twice and none from used: the vessels taken and
\* the coverage profit
RECURSIVE Coverings(_, _, _, _)
Coverings(rows, cargo_names, i, used) ==
    IF i > Len(cargo_names) THEN {[used |-> used, profit |-> 0]}
    ELSE UNION { { [used |-> c.used,
                    profit |-> c.profit + CoverageEntry(rows[k]).profit] :
                     c \in Coverings(rows, cargo_names, i + 1,
                                     used \cup {rows[k].vessel}) } :
                 k \in {j \in DOMAIN rows :
                          /\ rows[j].cargo = cargo_names[i]
                          /\ rows[j].vessel \notin used} }

\* the rows of owned vessels on optional cargoes that clear the threshold
OptionalRows(in) ==
    SelectSeq(ValidOptionsOf(in),
              LAMBDA row : /\ row.vessel_type = "cargill"
                           /\ row.cargo_type = "market"
                           /\ ClearsThreshold(row))

\* the total profit of every combination: a covering and a one-to-one
\* assignment, possibly of none, of the owned vessels it leaves
CombinationTotals(in) ==
    UNION { { c.profit + t.total_profit :
                t \in PartialTotals(OptionalRows(in), Names(in.market_cargoes),
                                    1, c.used) } :
            c \in Coverings(ValidOptionsOf(in), Names(in.cargill_cargoes), 1, {}) }

\* the valid row behind a triple of a plan
TripleRow(in, t) ==
    CHOOSE row \in Range(ValidOptionsOf(in)) :
        row.vessel = t[1] /\ row.cargo = t[2] /\ row.option = t[3]

\* what a plan earns on the committed cargoes and on the optional ones
CoverageProfit(r, in) ==
    LET ts == SelectSeq(Triples(r),
                        LAMBDA t : t[2] \in Range(Names(in.cargill_cargoes)))
    IN  SumSeq([k \in DOMAIN ts |-> CoverageEntry(TripleRow(in, ts[k])).profit])

OptionalProfit(r, in) ==
    LET ts == SelectSeq(Triples(r),
                        LAMBDA t : t[2] \notin Range(Names(in.cargill_cargoes)))
    IN  SumSeq([k \in DOMAIN ts |-> ts[k][3].net_profit])

\* the search ran: every committed cargo is coverable and some combination
\* uses no vessel twice
Searched == Planned /\ fp # Idle /\ CombinationTotals(fp) # {}

MaxOf(S) == CHOOSE x \in S : \A y \in S : y <= x

\* the valid combinations: for the committed cargoes from position i on, the
\* indices of the rows that cover them, no vessel twice and none from used
RECURSIVE CoverChoices(_, _, _, _)
CoverChoices(rows, cargo_names, i, used) ==
    IF i > Len(cargo_names) THEN {<<>>}
    ELSE UNION { { <<k>> \o rest :
                     rest \in CoverChoices(rows, cargo_names, i + 1,
                                           used \cup {rows[k].vessel}) } :
                 k \in {j \in DOMAIN rows :
                          /\ rows[j].cargo = cargo_names[i]
                          /\ rows[j].vessel \notin used} }

ValidCombinations(in) ==
    CoverChoices(ValidOptionsOf(in), Names(in.cargill_cargoes), 1, {})

\* the (vessel, cargo) pairs by which a combination covers the committed cargoes
ChoicePairs(in, choice) ==
    { <<ValidOptionsOf(in)[choice[i]].vessel, ValidOptionsOf(in)[choice[i]].cargo>> :
        i \in DOMAIN choice }

\* the total profit of a combination: its coverage profit and the best the
\* owned vessels it leaves can earn on optional cargoes
ChoiceTotal(in, choice) ==
    SumSeq([i \in DOMAIN choice |->
              CoverageEntry(ValidOptionsOf(in)[choice[i]]).profit])
      + MaxOf({ t.total_profit :
                  t \in PartialTotals(OptionalRows(in), Names(in.market_cargoes), 1,
                                      {p[1] : p \in ChoicePairs(in, choice)}) })

\* the (vessel, cargo) pairs of a plan, all of them and those of committed cargoes
PlanPairs(r) == { <<Triples(r)[i][1], Triples(r)[i][2]>> : i \in DOMAIN Triples(r) }

PlanCoverage(r, in) ==
    { p \in PlanPairs(r) : p[2] \in Range(Names(in.cargill_cargoes)) }

\* the enumeration ran: no committed cargo is uncoverable
Enumerated ==
    /\ Planned /\ fp # Idle
    /\ \A name \in Range(Names(fp.cargill_cargoes)) :
          \E k \in DOMAIN ValidOptionsOf(fp) : ValidOptionsOf(fp)[k].cargo = name

\* from iteration m of the loop over product(*coverage_lists) on, with kept
\* retained so far, top_combinations never holds more than top_n combinations
RECURSIVE BoundedFrom(_, _, _, _, _, _, _, _)
BoundedFrom(coverage_lists, cargill_vessels, lookup, set_order, top_n, combos, m, kept) ==
    IF m > Len(combos) THEN TRUE
    ELSE LET next == CombinationLoop(coverage_lists, cargill_vessels, lookup,
                                     set_order, top_n, combos, m, m, kept)
         IN  /\ Len(next.top_combinations) <= top_n
             /\ BoundedFrom(coverage_lists, cargill_vessels, lookup, set_order,
                            top_n, combos, m + 1, next)

\* the retained set never holds more than top_n combinations
RetainedBounded(in) ==
    LET Over(coverage_lists) ==
            BoundedFrom(coverage_lists, in.cargill_vessels,
                        vessel_market_lookup(ValidOptionsOf(in), in.cargill_vessels),
                        Names(in.market_cargoes), in.top_n,
                        product([k \in DOMAIN coverage_lists |->
                                   Len(coverage_lists[k])]),
                        1, [combo_id |-> 0, top_combinations |-> <<>>])
    IN  Over(cargo_coverage(ValidOptionsOf(in), in.cargill_cargoes))

\* the plans are pairwise distinct and in order of non-increasing profit, and
\* no combination left out earns more than the last of them
RankedPlans(results, in) ==
    /\ \A i, j \in DOMAIN results :
          i < j => /\ PlanPairs(results[i]) # PlanPairs(results[j])
                   /\ results[i].total_profit >= results[j].total_profit
    /\ \A choice \in ValidCombinations(in) :
          (\A i \in DOMAIN results :
              PlanCoverage(results[i], in) # ChoicePairs(in, choice))
            => ChoiceTotal(in, choice) <= results[Len(results)].total_profit

\* C20: during the enumeration the retained set never holds more than top_n
\* combinations, and optimize_full_portfolio returns min(top_n, number of
\* valid combinations) plans, pairwise distinct in their assignment sets, in
\* order of non-increasing total_profit, every valid combination that is not
\* returned earning at most what the last returned plan earns
C20_TopNPlansReturned ==
    Enumerated =>
        /\ RetainedBounded(fp)
        /\ Len(plans.results) = Min2(fp.top_n, Cardinality(ValidCombinations(fp)))
        /\ RankedPlans(plans.results, fp)

\* C20 as the code has it: the retained set never holds more than top_n
\* combinations; when some combination uses no vessel twice the plans
\* returned are min(top_n, number of valid combinations), pairwise distinct,
\* in order of non-increasing total_profit, with no combination left out
\* that earns more than the last; when none does, the one fallback plan is
\* returned
C20_TopNPlansReturnedAmended ==
    Enumerated =>
        /\ RetainedBounded(fp)
        /\ IF ValidCombinations(fp) = {}
           THEN Len(plans.results) = 1
           ELSE /\ Len(plans.results)
                     = Min2(fp.top_n, Cardinality(ValidCombinations(fp)))
                /\ RankedPlans(plans.results, fp)

\* two plans of different profit kept out of three or more combinations
C20_Witness ==
    /\ Enumerated
    /\ fp.top_n = 2
    /\ Cardinality(ValidCombinations(fp)) >= 3
    /\ Len(plans.results) = 2
    /\ plans.results[1].total_profit > plans.results[2].total_profit
    /\ \E choice \in ValidCombinations(fp) :
          ChoiceTotal(fp, choice) < plans.results[2].total_profit

(***************************************************************************)
(* C21: get_distance_with_source answers in strict tier order: 0 when the  *)
(* two names share a canonical alias; otherwise a forward table entry      *)
(* whenever the table holds one for any alias pair; otherwise a reverse    *)
(* entry; otherwise a curated estimate; otherwise not found.  A reverse    *)
(* entry is never returned while a forward entry exists for some alias     *)
(* pair of the same two ports.                                             *)
(***************************************************************************)
\* the alias pairs of the two ports of the last lookup
AliasPairs(last) ==
    Range(normalize_port(last.port_from)) \X Range(normalize_port(last.port_to))

SharedAlias(last) ==
    Range(normalize_port(last.port_from)) \cap Range(normalize_port(last.port_to)) # {}

ForwardEntries(table, last) ==
    {p \in AliasPairs(last) : p \in DOMAIN table}

ReverseEntries(table, last) ==
    {p \in AliasPairs(last) : <<p[2], p[1]>> \in DOMAIN table}

EstimateEntries(last) ==
    {p \in AliasPairs(last) : p \in DOMAIN normalized_estimates}

TierOrdered(table, last) ==
    IF SharedAlias(last) THEN last.distance = 0
    ELSE IF ForwardEntries(table, last) # {}
    THEN /\ last.source = "CSV"
         /\ \E p \in ForwardEntries(table, last) : last.distance = table[p]
    ELSE IF ReverseEntries(table, last) # {}
    THEN /\ last.source = "CSV_REVERSE"
         /\ \E p \in ReverseEntries(table, last) : last.distance = table[<<p[2], p[1]>>]
    ELSE IF EstimateEntries(last) # {}
    THEN /\ last.source = "ESTIMATE"
         /\ \E p \in EstimateEntries(last) : last.distance = normalized_estimates[p]
    ELSE last.source = "NOT_FOUND" /\ last.distance = NotFound

C21_StrictTierOrder ==
    (pc = "lookup" /\ dm.last.made) => TierOrdered(dm.distances, dm.last)

\* a reverse entry came back although the table held a forward entry
C21_ReverseBeforeForward ==
    ~ ( /\ pc = "lookup" /\ dm.last.made
        /\ dm.last.source = "CSV_REVERSE"
        /\ ForwardEntries(dm.distances, dm.last) # {} )

(***************************************************************************)
(* C22: after any sequence of lookups, every lookup has incremented        *)
(* exactly one of the four tier counters: total_lookups is the number of   *)
(* lookups made, the not_found counter is the number of lookups that       *)
(* returned no distance, and the estimate counter is the sum of the        *)
(* per-route estimate usage counts.                                        *)
(***************************************************************************)
RECURSIVE UsageTotal(_, _)
UsageTotal(estimate_usage, i) ==
    IF i > Len(estimate_usage) THEN 0
    ELSE estimate_usage[i][2] + UsageTotal(estimate_usage, i + 1)

TierTotal(lookup_stats) ==
    lookup_stats.csv + lookup_stats.csv_reverse + lookup_stats.estimate
      + lookup_stats.not_found

CountersAudit ==
    pc = "lookup" =>
       /\ get_lookup_stats(dm).total_lookups = dm.lookups
       /\ get_lookup_stats(dm).not_found = dm.unresolved
       /\ get_lookup_stats(dm).estimate_lookups
             = UsageTotal(get_lookup_stats(dm).estimates_used, 1)

\* a single lookup moves exactly one tier counter, by one
OneTierCounted ==
    (pc = "lookup" /\ dm'.lookups = dm.lookups + 1) =>
       \E tier \in {"csv", "csv_reverse", "estimate", "not_found"} :
          dm'.lookup_stats = [dm.lookup_stats EXCEPT ![tier] = @ + 1]

C22_EveryLookupCountedOnce ==
    [] CountersAudit /\ [][OneTierCounted]_vars

C22_Witness ==
    /\ pc = "lookup"
    /\ dm.lookup_stats.not_found >= 1
    /\ \E i \in DOMAIN dm.estimate_usage : dm.estimate_usage[i][2] >= 2

(***************************************************************************)
(* C23: calculate_voyage records a bunkering stop exactly when the         *)
(* combined VLSFO and MGO shortfall against the fuel on board exceeds the  *)
(* threshold (50 t).  With a stop: num_bunkering_stops = 1,                *)
(* extra_bunkering_days = 1, bunkering_lumpsum_fee = 5000, the extra MGO   *)
(* is one day of idle burn, and a bunker port is named.  Without: all four *)
(* are 0, no port is named, and the reported legs are (0, direct ballast   *)
(* distance).                                                              *)
(***************************************************************************)
\* the shortfall of the voyage as first planned: consumption on the direct
\* ballast leg, the laden leg and in port, beyond the fuel on board
ShortfallFrom(vessel, d, t) ==
    Max2(0, FuelBurn(d.ballast_days0, d.fuel_ballast_vlsfo)
              + FuelBurn(d.laden_days, d.fuel_laden_vlsfo)
              - vessel.bunker_rob_vlsfo)
      + Max2(0, FuelBurn(d.ballast_days0, d.fuel_ballast_mgo)
                  + FuelBurn(d.laden_days, d.fuel_laden_mgo)
                  + FuelBurn(t.load_days + t.discharge_days - t.turn_days,
                             vessel.port_working_mgo)
                  + FuelBurn(t.waiting_days + t.turn_days, vessel.port_idle_mgo)
                  - vessel.bunker_rob_mgo)

ShortfallOnLegs(d) ==
    ShortfallFrom(q_vessel, d, VoyageTimes(q_vessel, q_cargo, q_delay, d))

QueryShortfall ==
    ShortfallOnLegs(VoyageLegs(FreightCalculator, q_vessel, q_cargo, q_eco))

StopRecorded(r, vessel) ==
    /\ r.num_bunkering_stops = 1
    /\ r.extra_bunkering_days = 1 * TicksPerDay
    /\ r.bunkering_lumpsum_fee = 5000
    /\ r.extra_mgo_for_bunker = (vessel.port_idle_mgo * TicksPerDay) \div 100
    /\ r.selected_bunker_port # NoPort

NoStopRecorded(r) ==
    /\ r.num_bunkering_stops = 0
    /\ r.extra_bunkering_days = 0
    /\ r.bunkering_lumpsum_fee = 0
    /\ r.extra_mgo_for_bunker = 0
    /\ r.selected_bunker_port = NoPort
    /\ r.ballast_leg_to_bunker = 0
    /\ r.bunker_to_load_leg = r.direct_ballast_distance

C23_StopExactlyAboveThreshold ==
    Costed => IF QueryShortfall > 50 * 100
              THEN StopRecorded(voyage, q_vessel)
              ELSE NoStopRecorded(voyage)

\* both sides of the threshold: a voyage short of fuel by no more than 50 t,
\* which records no stop
C23_Witness ==
    /\ Costed
    /\ QueryShortfall > 0
    /\ QueryShortfall <= 50 * 100
    /\ voyage.num_bunkering_stops = 0

C23_WitnessStop ==
    /\ Costed
    /\ QueryShortfall > 50 * 100
    /\ voyage.num_bunkering_stops = 1
    /\ voyage.ballast_leg_to_bunker > 0

(***************************************************************************)
(* C24: among the candidate hubs whose two legs both resolve, the hub that *)
(* find_optimal_bunker_port selects costs less than $1,000 more than the   *)
(* cheapest candidate, whatever the order of the candidate list; a         *)
(* costlier hub is chosen over the cheapest one only when its routed       *)
(* distance (leg 1 + leg 2) is shorter.                                    *)
(***************************************************************************)
Unpriced == [port |-> NoPort, cost |-> 2000000000, leg1 |-> 0, leg2 |-> 0, bunker_cost |-> 0]

\* the candidate loop of the query over a given candidate list, from `best`
HubSearch(candidates, best) ==
    BunkerCandidateLoop(HubCalculator, 1, candidates, best, q_vessel, q_cargo,
        DistanceOf(HubCalculator, q_vessel.current_port, q_cargo.load_port),
        bk.bunker_needed_vlsfo, bk.bunker_needed_mgo,
        IF q_eco THEN q_vessel.speed_ballast_eco ELSE q_vessel.speed_ballast,
        IF q_eco THEN q_vessel.fuel_ballast_eco_vlsfo ELSE q_vessel.fuel_ballast_vlsfo,
        IF q_eco THEN q_vessel.fuel_ballast_eco_mgo ELSE q_vessel.fuel_ballast_mgo,
        q_vessel.hire_rate)

\* bunkering at the load port, where the loop starts
LoadPortBaseline ==
    [ port |-> NoPort, cost |-> bk.found.baseline_cost, leg1 |-> 0,
      leg2 |-> DistanceOf(HubCalculator, q_vessel.current_port, q_cargo.load_port),
      bunker_cost |-> bk.found.baseline_cost ]

\* every candidate whose legs resolve, with its total cost
ResolvedHubs ==
    {HubSearch(<<port>>, Unpriced) : port \in Range(ALL_BUNKER_PORTS)} \ {Unpriced}

\* the candidate list with up to three candidates moved to the front
Reorderings ==
    {ALL_BUNKER_PORTS} \cup
    { <<a, b, c>> \o SelectSeq(ALL_BUNKER_PORTS, LAMBDA p : p \notin {a, b, c}) :
        <<a, b, c>> \in { t \in Range(ALL_BUNKER_PORTS) \X Range(ALL_BUNKER_PORTS)
                                  \X Range(ALL_BUNKER_PORTS) :
                              t[1] # t[2] /\ t[1] # t[3] /\ t[2] # t[3] } }

NearCheapest(best, hubs) ==
    best.port # NoPort =>
       /\ \A h \in hubs : best.cost - h.cost < 1000
       /\ \A h \in hubs :
             (h.cost < best.cost /\ \A g \in hubs : h.cost <= g.cost)
                => best.leg1 + best.leg2 < h.leg1 + h.leg2

C24_SelectedHubNearCheapest ==
    (pc = "found" /\ ResolvedHubs # {}) =>
        \A candidates \in Reorderings :
            NearCheapest(HubSearch(candidates, LoadPortBaseline), ResolvedHubs)

\* the same for the candidate list in the order of ALL_BUNKER_PORTS only
C24_ShippedOrderNearCheapest ==
    (pc = "found" /\ ResolvedHubs # {}) =>
        /\ HubSearch(ALL_BUNKER_PORTS, LoadPortBaseline).port = bk.found.port
        /\ NearCheapest(HubSearch(ALL_BUNKER_PORTS, LoadPortBaseline), ResolvedHubs)

\* in the shipped order a costlier hub is chosen because its route is shorter
C24_TieBroken ==
    /\ pc = "found"
    /\ bk.found.port # NoPort
    /\ \E h \in ResolvedHubs : h.cost < bk.found.best_cost

(***************************************************************************)
(* C25: calculate_voyage either fails with the minimum-cargo error or      *)
(* returns cargo_quantity = min(quantity * (1 + tolerance), dwt - reserve);*)
(* every returned quantity lies between quantity * (1 - tolerance) and     *)
(* quantity * (1 + tolerance) and never exceeds dwt - reserve; the failure *)
(* occurs exactly when dwt - reserve is below quantity * (1 - tolerance).  *)
(* Quantities are compared in hundredths of a tonne, the tolerance being a *)
(* whole percentage.                                                       *)
(***************************************************************************)
MinimumCargoError ==
    pc = "costed" /\ ~voyage.ok
       /\ voyage.error = "cannot meet minimum cargo requirement"

BothLegsResolve ==
    /\ get_distance(q_vessel.current_port, q_cargo.load_port) # NotFound
    /\ get_distance(q_cargo.load_port, q_cargo.discharge_port) # NotFound

BelowMinimum(vessel, cargo) ==
    (vessel.dwt - 3500) * 100 < cargo.quantity * (100 - cargo.quantity_tolerance)

LoadedWithinTolerance(r, vessel, cargo) ==
    /\ r.cargo_quantity * 100
          = Min2(cargo.quantity * (100 + cargo.quantity_tolerance),
                 (vessel.dwt - 3500) * 100)
    /\ r.cargo_quantity * 100 >= cargo.quantity * (100 - cargo.quantity_tolerance)
    /\ r.cargo_quantity * 100 <= cargo.quantity * (100 + cargo.quantity_tolerance)
    /\ r.cargo_quantity <= vessel.dwt - 3500

C25_CargoQuantityWithinCapacity ==
    (pc = "costed" /\ BothLegsResolve) =>
        /\ MinimumCargoError <=> BelowMinimum(q_vessel, q_cargo)
        /\ voyage.ok <=> ~BelowMinimum(q_vessel, q_cargo)
        /\ voyage.ok => LoadedWithinTolerance(voyage, q_vessel, q_cargo)

\* a vessel too small for the cargo's minimum is refused
C25_Witness ==
    MinimumCargoError /\ BothLegsResolve /\ BelowMinimum(q_vessel, q_cargo)

\* the vessel's capacity, and the cargo's upper tolerance, limit the loading
C25_WitnessCapacity ==
    Costed /\ voyage.cargo_quantity = q_vessel.dwt - 3500
       /\ voyage.cargo_quantity * 100
             < q_cargo.quantity * (100 + q_cargo.quantity_tolerance)

C25_WitnessTolerance ==
    Costed /\ voyage.cargo_quantity < q_vessel.dwt - 3500

(***************************************************************************)
(* C26: for the same vessels and cargoes and the objective 'profit',       *)
(* optimize_assignments with dual_speed_mode=True returns a total_profit   *)
(* at least that of the eco-only mode, and uses for each assigned pair the *)
(* feasible speed option with the higher net profit.                       *)
(***************************************************************************)
\* the results of the same call in eco-only mode
EcoOnly(in) ==
    optimize_assignments(in.vessels, in.cargoes, TRUE, in.extra_port_delay,
                         in.bunker_adjustment, in.maximize,
                         in.include_negative_profit, in.port_delays, FALSE)

DualSpeedProfit ==
    Assigned /\ pw # Idle /\ pw.dual_speed_mode /\ pw.maximize = "profit"

\* the triple carries the most profitable feasible row of its pair
BestSpeedUsed(triple, rows) ==
    /\ \E i \in DOMAIN rows :
          /\ rows[i].vessel = triple[1] /\ rows[i].cargo = triple[2]
          /\ rows[i].net_profit = triple[3].net_profit
          /\ rows[i].result = triple[3]
    /\ \A i \in DOMAIN rows :
          (rows[i].vessel = triple[1] /\ rows[i].cargo = triple[2])
             => rows[i].net_profit <= triple[3].net_profit

DualAtLeastEco(result, eco_results, rows) ==
    /\ \A eco \in eco_results : ~eco.raised => result.total_profit >= eco.total_profit
    /\ \A k \in DOMAIN result.assignments : BestSpeedUsed(result.assignments[k], rows)

EcoAssigns(in) == \E eco \in EcoOnly(in) : ~eco.raised /\ eco.assignments # <<>>

PairRows(rows, triple, eco_speed) ==
    {i \in DOMAIN rows : /\ rows[i].vessel = triple[1]
                         /\ rows[i].cargo = triple[2]
                         /\ rows[i].speed_type = SpeedName(eco_speed)}

C26_WitnessEco ==
    /\ DualSpeedProfit /\ EcoAssigns(pw)
    /\ \E k \in DOMAIN portfolio.assignments :
          /\ \E i \in PairRows(FeasibleRows(pw), portfolio.assignments[k], TRUE) :
                FeasibleRows(pw)[i].result = portfolio.assignments[k][3]
          /\ \E j \in PairRows(FeasibleRows(pw), portfolio.assignments[k], FALSE) :
                FeasibleRows(pw)[j].net_profit < portfolio.assignments[k][3].net_profit

\* negative profits admitted: the eco-only run assigns and the dual-speed
\* run totals a loss
C26_WitnessLoss ==
    /\ DualSpeedProfit /\ pw.include_negative_profit /\ EcoAssigns(pw)
    /\ portfolio.total_profit < 0

(***************************************************************************)
(* C27: in every VoyageResult arrival_date equals the vessel's departure   *)
(* date plus the reported ballast_days, and can_make_laycan and            *)
(* waiting_days are derived from that same arrival, also when a bunkering  *)
(* stop reroutes the ballast leg through a hub and changes ballast_days.   *)
(***************************************************************************)
\* half a unit of the two decimals ballast_days is reported with
HalfCent == 5

\* the arrival the reported ballast_days give, up to their rounding
ArrivesAfterBallast(r, vessel) ==
    /\ r.arrival_date - (vessel.etd * TicksPerDay + r.ballast_days) <= HalfCent
    /\ (vessel.etd * TicksPerDay + r.ballast_days) - r.arrival_date <= HalfCent

\* the laycan flag and the waiting time follow from arrival_date
LaycanFromArrival(r) ==
    /\ r.can_make_laycan <=> r.arrival_date <= r.laycan_end
    /\ r.waiting_days = Round2(IF r.arrival_date < r.laycan_start
                               THEN r.laycan_start - r.arrival_date ELSE 0)

C27_ArrivalMatchesReportedBallast ==
    Costed => (ArrivesAfterBallast(voyage, q_vessel) /\ LaycanFromArrival(voyage))

\* C27 for the voyages that are not rerouted: the same
C27_DirectArrivalMatches ==
    (Costed /\ ~ViaHub(voyage))
       => (ArrivesAfterBallast(voyage, q_vessel) /\ LaycanFromArrival(voyage))

\* the laycan flag and the waiting time follow from arrival_date in every
\* voyage, rerouted or not
C27_LaycanFollowsArrival == Costed => LaycanFromArrival(voyage)

(***************************************************************************)
(* C28: for every plan returned by optimize_full_portfolio on the normal   *)
(* path, total_profit equals the sum of the net_profit values carried by   *)
(* the VoyageOption of each of its assignment triples, hired-vessel        *)
(* triples included.                                                       *)
(***************************************************************************)
\* the sum of the net_profit of the options of a plan's triples
OptionProfit(r) == SumSeq([k \in DOMAIN Triples(r) |-> Triples(r)[k][3].net_profit])

C28_TotalProfitIsSumOfOptions ==
    Searched => \A k \in DOMAIN plans.results :
                    plans.results[k].total_profit = OptionProfit(plans.results[k])

\* C28 for the plans that hire no vessel: the same
C28_OwnedOnlyTotalIsSumOfOptions ==
    Searched => \A k \in DOMAIN plans.results :
                    plans.results[k].market_vessel_assignments = <<>>
                       => plans.results[k].total_profit = OptionProfit(plans.results[k])

\* a plan without hired vessels that assigns owned vessels to a committed
\* and to an optional cargo
C28_WitnessOwnedOnly ==
    /\ Searched
    /\ plans.results[1].market_vessel_assignments = <<>>
    /\ Len(plans.results[1].cargill_vessel_assignments) >= 2
    /\ OptionalProfit(plans.results[1], fp) > 0

(***************************************************************************)
(* C29: a per-port delay mapping applies the same extra delay to a given   *)
(* cargo in the joint optimizer (calculate_all_options) as in the pairwise *)
(* optimizer (calculate_all_voyages): whenever a mapping key matches the   *)
(* cargo's discharge port case-insensitively in the pairwise path, the     *)
(* joint path applies that delay too.                                      *)
(***************************************************************************)
\* a key of the mapping matches the port in the pairwise path
PairwiseMatches(port_delays, port) ==
    \E k \in DOMAIN port_delays :
        \/ Contains(Upper(port), Upper(port_delays[k][1]))
        \/ Contains(Upper(port_delays[k][1]), Upper(port))

\* the row calculate_all_voyages has for the pair of a triple of a plan
PairwiseRowOf(in, t) ==
    VoyageRow(ByName(in.cargill_vessels \o in.market_vessels, t[1]),
              ByName(in.cargill_cargoes \o in.market_cargoes, t[2]),
              in.use_eco_speed, 0, 100, in.port_delays)

\* the port days of the triple are those of the pairwise row: the extra
\* delay is split between the load and the discharge port
SameDelayAsPairwise(in, t) ==
    /\ t[3].result.load_days = PairwiseRowOf(in, t).result.load_days
    /\ t[3].result.discharge_days = PairwiseRowOf(in, t).result.discharge_days

C29_JointAppliesPairwiseDelay ==
    (DelayedJoint /\ ~plans.raised) =>
        \A n \in DOMAIN plans.results : \A k \in DOMAIN Triples(plans.results[n]) :
            PairwiseMatches(fp.port_delays,
                            ByName(fp.cargill_cargoes \o fp.market_cargoes,
                                   Triples(plans.results[n])[k][2]).discharge_port)
               => SameDelayAsPairwise(fp, Triples(plans.results[n])[k])

\* C29 for the mappings whose keys are all discharge ports as the cargoes
\* spell them: the same
C29_ExactKeysApplyPairwiseDelay ==
    (DelayedJoint /\ ~plans.raised
       /\ \A i \in DOMAIN fp.port_delays :
             fp.port_delays[i][1] \in {"QINGDAO", "GWANGYANG", "SHANGHAI"}) =>
        \A n \in DOMAIN plans.results : \A k \in DOMAIN Triples(plans.results[n]) :
            SameDelayAsPairwise(fp, Triples(plans.results[n])[k])

\* a plan for a cargo that discharges at a port the mapping delays under
\* the port's own name
C29_WitnessExactKey ==
    /\ DelayedJoint /\ ~plans.raised
    /\ \A i \in DOMAIN fp.port_delays :
          fp.port_delays[i][1] \in {"QINGDAO", "GWANGYANG", "SHANGHAI"}
    /\ \E k \in DOMAIN Triples(plans.results[1]) :
          PortDelayGet(fp.port_delays, 1,
                       ByName(fp.cargill_cargoes \o fp.market_cargoes,
                              Triples(plans.results[1])[k][2]).discharge_port) > 0

(***************************************************************************)
(* C30: the two benchmark-rate substitutions for a zero freight-rate cargo *)
(* agree: for every load port the rate used by the joint optimizer's       *)
(* _calculate_option equals the rate returned by estimate_freight_rate, so *)
(* a single-pair query and the joint optimizer cost the same cargo at the  *)
(* same rate.                                                              *)
(***************************************************************************)
\* both the single-pair query and the joint optimizer have costed the pair
BothCosted == pc = "rate" /\ rt # Idle /\ rt.service # Idle /\ rt.option # Idle

\* the two costings used one rate, and where both succeeded they earn the
\* same freight
SameRate(service, option) ==
    /\ option.temp_cargo.freight_rate = service.effective_cargo.freight_rate
    /\ (service.result.ok /\ option.option.result.ok)
          => option.option.result.gross_freight = service.result.gross_freight

C30_BenchmarkRatesAgree ==
    (BothCosted /\ rt.cargo.freight_rate = 0) => SameRate(rt.service, rt.option)

\* C30 for the load ports other than PONTA DA MADEIRA: the same
C30_RatesAgreeElsewhere ==
    (BothCosted /\ rt.cargo.freight_rate = 0 /\ rt.cargo.load_port # "PONTA DA MADEIRA")
       => SameRate(rt.service, rt.option)

\* a cargo without a rate loading in Australia, costed by both at the
\* benchmark of 9
C30_WitnessAustralia ==
    /\ BothCosted /\ rt.cargo.freight_rate = 0
    /\ rt.service.result.ok /\ rt.option.option.result.ok
    /\ rt.option.temp_cargo.freight_rate = 9
    /\ rt.service.result.gross_freight > 0

\* a cargo without a rate loading in Brazil, costed by both at the
\* benchmark of 21
C30_WitnessBrazil ==
    /\ BothCosted /\ rt.cargo.freight_rate = 0
    /\ rt.service.result.ok /\ rt.option.option.result.ok
    /\ rt.option.temp_cargo.freight_rate = 21

====
